---------------------------- MODULE Spec2Model ----------------------------
(***************************************************************************)
(* django-validator: the parameter-resolution pipeline.                    *)
(*                                                                         *)
(* A handler is decorated with parameter declarations (_Param); a call of  *)
(* the wrapper resolves the request, extracts and converts every declared  *)
(* parameter, runs every validator and then calls the handler.             *)
(*                                                                         *)
(* Six specifications share the variables: Spec is the wrapper;            *)
(* SpecRequired is the wrapper over handlers with a required parameter;    *)
(* SpecRules declares a rule string and evaluates its instances;           *)
(* SpecMessages builds an instance, gives it messages and evaluates it;    *)
(* SpecShared evaluates one instance in several threads; SpecConverters    *)
(* runs class statements, register, get and BooleanConverter.convert.      *)
(*                                                                         *)
(* Python values are records [t, s, n, l]: t is the type tag, s the        *)
(* characters of a string (a file's name), n the number (a file's size,    *)
(* 1/0 for a bool, a float's mantissa), e a float's decimal exponent, l    *)
(* the elements of a list.  A message is a sequence of text chunks.        *)
(***************************************************************************)
EXTENDS Integers, Sequences, FiniteSets, TLC

(***************************************************************************)
(* Bounds of the model.                                                    *)
(***************************************************************************)
MaxParams == 2      \* declarations stacked on the handler
MaxCalls == 2       \* invocations of the wrapper

(***************************************************************************)
(* Python values.                                                          *)
(***************************************************************************)
None == [t |-> "none", s |-> <<>>, n |-> 0, e |-> 0, l |-> <<>>]
PStr(cs) == [t |-> "str", s |-> cs, n |-> 0, e |-> 0, l |-> <<>>]
PInt(k) == [t |-> "int", s |-> <<>>, n |-> k, e |-> 0, l |-> <<>>]
PBool(b) == [t |-> "bool", s |-> <<>>, n |-> IF b THEN 1 ELSE 0, e |-> 0, l |-> <<>>]
PList(xs) == [t |-> "list", s |-> <<>>, n |-> 0, e |-> 0, l |-> xs]
PFile(name, size) == [t |-> "file", s |-> name, n |-> size, e |-> 0, l |-> <<>>]
\* a class object, by its __name__
PClass(name) == [t |-> "class", s |-> <<name>>, n |-> 0, e |-> 0, l |-> <<>>]
\* a float is n * 10^e, n without trailing zeros
RECURSIVE PFloat(_, _)
PFloat(m, ex) == IF m = 0 THEN [t |-> "float", s |-> <<>>, n |-> 0, e |-> 0, l |-> <<>>]
                 ELSE IF m % 10 = 0 THEN PFloat(m \div 10, ex + 1)
                 ELSE [t |-> "float", s |-> <<>>, n |-> m, e |-> ex, l |-> <<>>]

IsNone(v) == v.t = "none"
IsString(v) == v.t = "str"

Digits == <<"0", "1", "2", "3", "4", "5", "6", "7", "8", "9">>
IsDigit(c) == \E i \in 1..10 : Digits[i] = c
DigitVal(c) == (CHOOSE i \in 1..10 : Digits[i] = c) - 1

RECURSIVE NatChars(_)
NatChars(k) == IF k < 10 THEN <<Digits[k + 1]>>
               ELSE NatChars(k \div 10) \o <<Digits[(k % 10) + 1]>>

RECURSIVE JoinRepr(_)
\* str(value): the text Python 2 gives a value
RECURSIVE PyStr(_)
PyStr(v) ==
    CASE v.t = "str" -> v.s
      [] v.t = "int" -> IF v.n < 0 THEN <<"-">> \o NatChars(-v.n) ELSE NatChars(v.n)
      [] v.t = "bool" -> IF v.n = 1 THEN <<"T", "r", "u", "e">>
                         ELSE <<"F", "a", "l", "s", "e">>
      [] v.t = "none" -> <<"N", "o", "n", "e">>
      [] v.t = "list" -> <<"[">> \o JoinRepr(v.l) \o <<"]">>
      [] OTHER -> <<"<">> \o v.s \o <<">">>
JoinRepr(xs) ==
    IF xs = <<>> THEN <<>>
    ELSE LET h == IF Head(xs).t = "str" THEN <<"'">> \o Head(xs).s \o <<"'">>
                  ELSE PyStr(Head(xs))
         IN IF Len(xs) = 1 THEN h ELSE h \o <<",", " ">> \o JoinRepr(Tail(xs))

\* the characters str.strip() removes
Whitespace == {" ", "\t", "\n", "\r"}
\* basestring.strip() == '': only whitespace characters
IsBlankString(cs) == \A i \in 1..Len(cs) : cs[i] \in Whitespace

\* whether sep occurs in cs at position i
MatchAt(cs, sep, i) ==
    /\ i + Len(sep) - 1 <= Len(cs)
    /\ \A k \in 1..Len(sep) : cs[i + k - 1] = sep[k]

\* str.split(sep) for a non-empty separator: the segments, in order
RECURSIVE SplitFrom(_, _, _, _)
SplitFrom(cs, sep, i, cur) ==
    IF i > Len(cs) THEN <<PStr(cur)>>
    ELSE IF MatchAt(cs, sep, i)
         THEN <<PStr(cur)>> \o SplitFrom(cs, sep, i + Len(sep), <<>>)
         ELSE SplitFrom(cs, sep, i + 1, Append(cur, cs[i]))
Split(cs, sep) == SplitFrom(cs, sep, 1, <<>>)

\* re.compile('^-?\d+\Z').match(cs)
IntegerRegexMatch(cs) ==
    LET body == IF cs # <<>> /\ Head(cs) = "-" THEN Tail(cs) ELSE cs
    IN /\ body # <<>>
       /\ \A i \in 1..Len(body) : IsDigit(body[i])

RECURSIVE DigitsValue(_)
DigitsValue(cs) == IF cs = <<>> THEN 0
                   ELSE DigitsValue(SubSeq(cs, 1, Len(cs) - 1)) * 10 + DigitVal(cs[Len(cs)])
\* int(string) of a string the integer regex matched
ParseInt(cs) == IF Head(cs) = "-" THEN 0 - DigitsValue(Tail(cs)) ELSE DigitsValue(cs)

\* the end of the run of digits of cs that starts at i
RECURSIVE DigitsEnd(_, _)
DigitsEnd(cs, i) == IF i <= Len(cs) /\ IsDigit(cs[i]) THEN DigitsEnd(cs, i + 1) ELSE i

\* the parts of cs under '^-?\d*(\.\d+)?(e-?\d+)?\Z': [match, neg, int, frac, eneg, exp]
NumericParts(cs) ==
    LET i0 == IF cs # <<>> /\ cs[1] = "-" THEN 2 ELSE 1
        i1 == DigitsEnd(cs, i0)
        hasFrac == i1 <= Len(cs) /\ cs[i1] = "." /\ DigitsEnd(cs, i1 + 1) > i1 + 1
        i2 == IF hasFrac THEN DigitsEnd(cs, i1 + 1) ELSE i1
        eneg == i2 + 1 <= Len(cs) /\ cs[i2] = "e" /\ cs[i2 + 1] = "-"
        j == IF eneg THEN i2 + 2 ELSE i2 + 1
        hasExp == i2 <= Len(cs) /\ cs[i2] = "e" /\ DigitsEnd(cs, j) > j
        i3 == IF hasExp THEN DigitsEnd(cs, j) ELSE i2
    IN [match |-> i3 = Len(cs) + 1,
        neg |-> i0 = 2,
        int |-> SubSeq(cs, i0, i1 - 1),
        frac |-> IF hasFrac THEN SubSeq(cs, i1 + 1, i2 - 1) ELSE <<>>,
        eneg |-> eneg,
        exp |-> IF hasExp THEN SubSeq(cs, j, i3 - 1) ELSE <<>>]
NumericRegexMatch(cs) == NumericParts(cs).match

\* str.lower(): the letters the model's texts use
UpperLetters == <<"A", "B", "C", "F", "P", "T", "X">>
LowerLetters == <<"a", "b", "c", "f", "p", "t", "x">>
LowerChar(c) == IF \E i \in 1..Len(UpperLetters) : UpperLetters[i] = c
                THEN LowerLetters[CHOOSE i \in 1..Len(UpperLetters) : UpperLetters[i] = c]
                ELSE c
Lower(cs) == [i \in 1..Len(cs) |-> LowerChar(cs[i])]

\* \w: a letter, a digit or the underscore
IsWordChar(c) ==
    \/ IsDigit(c) \/ c = "_"
    \/ \E i \in 1..Len(UpperLetters) : c \in {UpperLetters[i], LowerLetters[i]}
    \/ c \in {"d", "e", "g", "h", "l", "m", "n", "o", "r", "s", "u", "w", "z"}

\* cs without the newline that $ lets a text end with
BeforeNewline(cs) == IF cs # <<>> /\ cs[Len(cs)] = "\n" THEN SubSeq(cs, 1, Len(cs) - 1) ELSE cs

\* re.compile(regex).match(cs) for the patterns the model compiles: a
\* pattern is a sequence of chunks, "^", "$", "\w+" and "(x|y)" being chunks
\* of their own; any other pattern is literal text, matched as a prefix
PatternMatch(regex, cs) ==
    CASE regex = <<"^", "\\w+", "$">> ->
           /\ BeforeNewline(cs) # <<>>
           /\ \A i \in 1..Len(BeforeNewline(cs)) : IsWordChar(BeforeNewline(cs)[i])
      [] regex = <<"^", "(x|y)", "$">> -> BeforeNewline(cs) \in {<<"x">>, <<"y">>}
      [] OTHER -> Len(cs) >= Len(regex) /\ SubSeq(cs, 1, Len(regex)) = regex

\* the last index of c in cs, 0 when it does not occur
LastIndex(cs, c) ==
    IF \E i \in 1..Len(cs) : cs[i] = c
    THEN CHOOSE i \in 1..Len(cs) : cs[i] = c /\ \A k \in (i + 1)..Len(cs) : cs[k] # c
    ELSE 0
\* os.path.splitext(name)[1]
SplitExt(cs) ==
    IF /\ LastIndex(cs, ".") > LastIndex(cs, "/")
       /\ \E k \in (LastIndex(cs, "/") + 1)..(LastIndex(cs, ".") - 1) : cs[k] # "."
    THEN SubSeq(cs, LastIndex(cs, "."), Len(cs))
    ELSE <<>>

\* the regex validators' predicate on the cleaned text
RegexMatch(v, cs) ==
    CASE v.cls = "NumericValidator" -> NumericRegexMatch(cs)
      [] v.cls = "IntegerValidator" -> IntegerRegexMatch(cs)
      [] OTHER -> PatternMatch(v.regex, cs)

(***************************************************************************)
(* Python dicts: functions from keys to values.                            *)
(***************************************************************************)
EmptyDict == [k \in {} |-> None]
DictGet(d, k, default) == IF k \in DOMAIN d THEN d[k] ELSE default
DictSet(d, k, v) == [x \in (DOMAIN d) \cup {k} |-> IF x = k THEN v ELSE d[x]]

(***************************************************************************)
(* Outcomes: a returned value or a raised exception.                       *)
(* exceptions.py: ValidationError(detail, code=None, status_code=400).     *)
(***************************************************************************)
HTTP_400_BAD_REQUEST == 400
NoCode == "None"
Ok(v) == [exc |-> "", val |-> v, msg |-> <<>>, code |-> "", status |-> 0]
Raise(exc, msg) == [exc |-> exc, val |-> None, msg |-> msg, code |-> "", status |-> 0]
ValidationError(detail, code, status_code) ==
    [exc |-> "ValidationError", val |-> None, msg |-> detail, code |-> code,
     status |-> status_code]
Failed(r) == r.exc # ""

(***************************************************************************)
(* validators.py: validator instances and BaseValidator.__call__.          *)
(* A template holds the chunks "{key}", "{value}" and "{show_value}".      *)
(***************************************************************************)
BaseValidator(cls, code, message, nullable) ==
    [cls |-> cls, code |-> code, message |-> message, nullable |-> nullable,
     status_code |-> HTTP_400_BAD_REQUEST,
     other |-> "", other_value |-> <<>>, min_value |-> 0, max_value |-> 0,
     choices |-> {}, regex |-> <<>>]

\* int(x) of a constructor argument: a number, or its decimal text
IntArg(v) == IF v.t = "str" THEN ParseInt(v.s) ELSE v.n

\* BaseValidator.__init__(message): a message that is given replaces the
\* class's; <<>> stands for None
InitMessage(message, default) == IF message # <<>> THEN message ELSE default

\* a Required that skips an absent value, as the other validators do
RequiredValidatorNullable(message) ==
    BaseValidator("RequiredValidator", "required_validator",
                  InitMessage(message, <<"The ", "{key}", " is required.">>), TRUE)
RequiredValidator(message) ==
    BaseValidator("RequiredValidator", "required_validator",
                  InitMessage(message, <<"The ", "{key}", " is required.">>), FALSE)
\* the three constructors below rebind self.message after BaseValidator.__init__
RequiredWithValidator(other, message) ==
    [BaseValidator("RequiredWithValidator", "required_with_validator",
                   <<"The ", "{key}", " is required with ", other>>, FALSE)
     EXCEPT !.other = other]
RequiredWithoutValidator(other, message) ==
    [BaseValidator("RequiredWithoutValidator", "required_without_validator",
                   <<"The ", "{key}", " is required without ", other>>, FALSE)
     EXCEPT !.other = other]
RequiredIfValidator(other, other_value, message) ==
    [BaseValidator("RequiredIfValidator", "required_if_validator",
                   <<"The ", "{key}", " is required when ", other, " is ">> \o other_value,
                   FALSE)
     EXCEPT !.other = other, !.other_value = other_value]
MinValidator(min_value) ==
    [BaseValidator("MinValidator", "min_validator",
                   <<"The ", "{key}", " is invalid.">>, TRUE)
     EXCEPT !.min_value = IntArg(min_value)]
MaxValidator(max_value) ==
    [BaseValidator("MaxValidator", "max_validator",
                   <<"The ", "{key}", " is invalid.">>, TRUE)
     EXCEPT !.max_value = IntArg(max_value)]
BetweenValidator(min_value, max_value) ==
    [BaseValidator("BetweenValidator", "between_validator",
                   <<"The ", "{key}", " is invalid.">>, TRUE)
     EXCEPT !.min_value = IntArg(min_value), !.max_value = IntArg(max_value)]
IntegerValidator(message) ==
    BaseValidator("IntegerValidator", "integer_validator",
                  InitMessage(message, <<"The ", "{key}", " must be an integer.">>), TRUE)
NumericValidator(message) ==
    BaseValidator("NumericValidator", "numeric_validator",
                  InitMessage(message, <<"The ", "{key}", " must be a number.">>), TRUE)
RegexValidator(regex, message) ==
    [BaseValidator("RegexValidator", "regex_validator",
                   InitMessage(message, <<"The ", "{key}", " format is invalid.">>), TRUE)
     EXCEPT !.regex = regex]
\* choices are the texts given, lower-cased
InValidator(choices) ==
    [BaseValidator("InValidator", "in_validator",
                   <<"The selected ", "{key}", " is invalid.">>, TRUE)
     EXCEPT !.choices = {Lower(c) : c \in choices}]
NotInValidator(choices) ==
    [InValidator(choices) EXCEPT !.cls = "NotInValidator", !.code = "not_in_validator"]
\* choices are the texts given, lower-cased, with a leading dot
ExtInValidator(choices) ==
    [BaseValidator("ExtInValidator", "ext_in_validator",
                   <<"The extension type of ", "{key}", " is invalid.">>, TRUE)
     EXCEPT !.choices = {IF c # <<>> /\ Lower(c)[1] = "." THEN Lower(c)
                         ELSE <<".">> \o Lower(c) : c \in choices}]
ExtNotInValidator(choices) ==
    [ExtInValidator(choices) EXCEPT !.cls = "ExtNotInValidator",
                                    !.code = "ext_not_in_validator"]

\* a requirement that only None fails
required_not_none(value) == ~IsNone(value)
\* RequiredValidator.required_valid
required_valid(value) ==
    IF IsNone(value) THEN FALSE
    ELSE IF IsString(value) /\ IsBlankString(value.s) THEN FALSE
    ELSE TRUE

\* clean(value) of each validator class
Clean(v, value) ==
    CASE v.cls \in {"IntegerValidator", "NumericValidator", "RegexValidator"} ->
           IF IsNone(value) THEN PStr(<<>>) ELSE PStr(PyStr(value))
      [] v.cls \in {"InValidator", "NotInValidator"} ->
           IF IsNone(value) THEN PStr(<<>>) ELSE PStr(Lower(PyStr(value)))
      [] v.cls \in {"ExtInValidator", "ExtNotInValidator"} -> PStr(Lower(SplitExt(value.s)))
      [] OTHER -> value
\* whether clean(value) raises: ExtIn reads value.name, which only a file has
CleanRaises(v, value) ==
    v.cls \in {"ExtInValidator", "ExtNotInValidator"} /\ value.t # "file"

RECURSIVE Pow10(_)
Pow10(k) == IF k = 0 THEN 1 ELSE 10 * Pow10(k - 1)
\* value >= bound and value <= bound as Python 2 orders a non-string,
\* non-file value against an int: a number by its value, None below and a
\* list above every int
GreaterEq(value, bound) ==
    CASE value.t \in {"int", "bool"} -> value.n >= bound
      [] value.t = "float" -> IF value.e >= 0 THEN value.n * Pow10(value.e) >= bound
                              ELSE value.n >= bound * Pow10(0 - value.e)
      [] value.t = "none" -> FALSE
      [] OTHER -> TRUE
LessEq(value, bound) ==
    CASE value.t \in {"int", "bool"} -> value.n <= bound
      [] value.t = "float" -> IF value.e >= 0 THEN value.n * Pow10(value.e) <= bound
                              ELSE value.n <= bound * Pow10(0 - value.e)
      [] value.t = "none" -> TRUE
      [] OTHER -> FALSE

\* the magnitude Min, Max and Between compare, by branch
Branch(value) == IF IsString(value) THEN "characters"
                 ELSE IF value.t = "file" THEN "bytes" ELSE "plain"
AtLeast(value, bound) ==
    CASE Branch(value) = "characters" -> Len(value.s) >= bound
      [] Branch(value) = "bytes" -> value.n >= bound
      [] OTHER -> GreaterEq(value, bound)
\* an upper bound that excludes the bound itself
AtMostExclusive(value, bound) ==
    CASE Branch(value) = "characters" -> Len(value.s) < bound
      [] Branch(value) = "bytes" -> value.n < bound
      [] OTHER -> LessEq(value, bound - 1)
AtMost(value, bound) ==
    CASE Branch(value) = "characters" -> Len(value.s) <= bound
      [] Branch(value) = "bytes" -> value.n <= bound
      [] OTHER -> LessEq(value, bound)
Unit(value) == IF Branch(value) = "plain" THEN <<".">>
               ELSE <<" ", Branch(value), ".">>

\* an is_valid that leaves self.message as it found it
MessageKept(v, value) == v.message
\* self.message as is_valid leaves it: Min, Max and Between rebind it
MessageAfter(v, value) ==
    CASE v.cls = "MinValidator" ->
           <<"The ", "{key}", " must be at least ">> \o PyStr(PInt(v.min_value))
             \o Unit(value)
      [] v.cls = "MaxValidator" ->
           (IF Branch(value) = "bytes"
            THEN <<"The ", "{key}", " must not be at greater ">>
            ELSE <<"The ", "{key}", " may not be greater than ">>)
             \o PyStr(PInt(v.max_value)) \o Unit(value)
      [] v.cls = "BetweenValidator" ->
           <<"The ", "{key}", " must be between ">> \o PyStr(PInt(v.min_value))
             \o <<" and ">> \o PyStr(PInt(v.max_value)) \o Unit(value)
      [] OTHER -> v.message

\* is_valid(value, params) of each validator class
is_valid(v, value, params) ==
    CASE v.cls = "RequiredValidator" -> required_valid(value)
      [] v.cls = "RequiredWithValidator" ->
           IF ~IsNone(DictGet(params, v.other, None)) THEN required_valid(value) ELSE TRUE
      [] v.cls = "RequiredWithoutValidator" ->
           IF IsNone(DictGet(params, v.other, None)) THEN required_valid(value) ELSE TRUE
      [] v.cls = "RequiredIfValidator" ->
           LET other_value == DictGet(params, v.other, None)
           IN IF ~IsNone(other_value) /\ PyStr(other_value) = v.other_value
              THEN required_valid(value) ELSE TRUE
      [] v.cls = "MinValidator" -> AtLeast(value, v.min_value)
      [] v.cls = "MaxValidator" -> AtMost(value, v.max_value)
      [] v.cls = "BetweenValidator" ->
           AtLeast(value, v.min_value) /\ AtMost(value, v.max_value)
      [] v.cls \in {"IntegerValidator", "NumericValidator", "RegexValidator"} ->
           RegexMatch(v, value.s)
      [] v.cls \in {"InValidator", "ExtInValidator"} -> value.s \in v.choices
      [] v.cls \in {"NotInValidator", "ExtNotInValidator"} -> value.s \notin v.choices

\* str.format(show_value=, value=, key=) of a template
RECURSIVE Format(_, _, _, _)
Format(tmpl, key, value, show_value) ==
    IF tmpl = <<>> THEN <<>>
    ELSE (CASE Head(tmpl) = "{key}" -> <<key>>
            [] Head(tmpl) = "{value}" -> PyStr(value)
            [] Head(tmpl) = "{show_value}" -> PyStr(show_value)
            [] OTHER -> <<Head(tmpl)>>)
         \o Format(Tail(tmpl), key, value, show_value)

\* BaseValidator.__call__(key, params, verbose_key): the outcome, and the
\* instance's message after the call.  verbose_key "" stands for None.
\* an error that formats the message the call found on the instance
EvaluateStale(v, verbose_key, value, cleaned, params) ==
    [res |-> IF is_valid(v, cleaned, params) THEN Ok(PBool(TRUE))
             ELSE ValidationError(Format(v.message, verbose_key, value, cleaned),
                                  v.code, v.status_code),
     message |-> MessageAfter(v, cleaned)]
\* lines 109-113: the predicate on the cleaned value, and the error raised
Evaluate(v, verbose_key, value, cleaned, params) ==
    [res |-> IF is_valid(v, cleaned, params) THEN Ok(PBool(TRUE))
             ELSE ValidationError(Format(MessageAfter(v, cleaned), verbose_key, value,
                                         cleaned),
                                  v.code, v.status_code),
     message |-> MessageAfter(v, cleaned)]
\* a call that evaluates the predicate on None as on any value
CallOnAlways(v, key, value, params, verbose_key) ==
    IF CleanRaises(v, value)
    THEN [res |-> Raise("AttributeError", <<"object has no attribute ", "name">>),
          message |-> v.message]
    ELSE Evaluate(v, IF verbose_key = "" THEN key ELSE verbose_key, value,
                  Clean(v, value), params)
\* lines 104-108: the nullable short cut, and the key the message shows
CallOn(v, key, value, params, verbose_key) ==
    IF IsNone(value) /\ v.nullable
    THEN [res |-> Ok(PBool(TRUE)), message |-> v.message]
    ELSE IF CleanRaises(v, value)
    THEN [res |-> Raise("AttributeError", <<"object has no attribute ", "name">>),
          message |-> v.message]
    ELSE Evaluate(v, IF verbose_key = "" THEN key ELSE verbose_key, value,
                  Clean(v, value), params)
ValidatorCall(v, key, params, verbose_key) ==
    CallOn(v, key, DictGet(params, key, None), params, verbose_key)

(***************************************************************************)
(* converters.py: the registry and the built-in converters.                *)
(***************************************************************************)
\* ConverterRegistry._registry once the module is imported
BuiltinConverters ==
    [name \in {"string", "str", "integer", "int", "float", "boolean", "bool", "file"} |->
        CASE name \in {"string", "str"} -> "StringConverter"
          [] name \in {"integer", "int"} -> "IntegerConverter"
          [] name = "float" -> "FloatConverter"
          [] name \in {"boolean", "bool"} -> "BooleanConverter"
          [] OTHER -> "FileConverter"]

\* a lookup without the default, as ValidatorRegistry.get: "" stands for None
ConverterRegistryGetNone(registry, name) == DictGet(registry, name, "")
\* ConverterRegistry.get: the name "" stands for None
ConverterRegistryGet(registry, name) == DictGet(registry, name, "StringConverter")

\* a class statement: the base and the class's own Meta.  own is whether the
\* body has a Meta; name is None when Meta declares no name, a string or a
\* tuple (a list value) of strings otherwise; a class name is one chunk
NoMeta == [own |-> FALSE, name |-> None, abstract |-> FALSE]
ClassMeta(name, abstract) == [own |-> TRUE, name |-> name, abstract |-> abstract]
PTuple(names) == PList([k \in 1..Len(names) |-> PStr(<<names[k]>>)])
ClassDef(base, meta) == [base |-> base, meta |-> meta]

\* the converter classes once the module is imported; the base "" is object
BuiltinClasses ==
    [name \in {"BaseConverter", "StringConverter", "IntegerConverter", "FloatConverter",
               "BooleanConverter", "FileConverter"} |->
        CASE name = "BaseConverter" -> ClassDef("", ClassMeta(None, TRUE))
          [] name = "StringConverter" ->
               ClassDef("BaseConverter", ClassMeta(PTuple(<<"string", "str">>), FALSE))
          [] name = "IntegerConverter" ->
               ClassDef("BaseConverter", ClassMeta(PTuple(<<"integer", "int">>), FALSE))
          [] name = "FloatConverter" ->
               ClassDef("BaseConverter", ClassMeta(PStr(<<"float">>), FALSE))
          [] name = "BooleanConverter" ->
               ClassDef("BaseConverter", ClassMeta(PTuple(<<"boolean", "bool">>), FALSE))
          [] OTHER -> ClassDef("BaseConverter", ClassMeta(PTuple(<<"file">>), FALSE))]

\* getattr(cls, 'Meta', None): the class's own Meta, else the nearest base's
RECURSIVE MetaOf(_, _)
MetaOf(classes, cls) ==
    IF cls = "" THEN NoMeta
    ELSE IF classes[cls].meta.own THEN classes[cls].meta
    ELSE MetaOf(classes, classes[cls].base)

\* ConverterRegistry.register: a name with __iter__ is a collection of names
ConverterRegistryRegister(registry, name, _class) ==
    LET names == IF name.t = "list" THEN {name.l[k].s[1] : k \in 1..Len(name.l)}
                 ELSE {name.s[1]}
    IN [x \in (DOMAIN registry) \cup names |-> IF x \in names THEN _class ELSE registry[x]]

\* BaseConverter.register(name=None)
BaseConverterRegister(classes, registry, cls, name) ==
    IF IsNone(name)
    THEN ConverterRegistryRegister(registry,
                                   IF IsNone(MetaOf(classes, cls).name) THEN PStr(<<cls>>)
                                   ELSE MetaOf(classes, cls).name,
                                   cls)
    ELSE ConverterRegistryRegister(registry, name, cls)

\* the classes after the statement `class name(base)` with the body's Meta
WithClass(classes, name, base, meta) ==
    [x \in (DOMAIN classes) \cup {name} |->
        IF x = name THEN ClassDef(base, meta) ELSE classes[x]]
\* ConverterMetaClass.__new__: the registry after the class statement
ConverterMetaClassNew(classes, registry, name, base, meta) ==
    IF meta.own /\ meta.abstract THEN registry
    ELSE BaseConverterRegister(WithClass(classes, name, base, meta), registry, name, None)

\* float(x) of a value the numeric regex matched
PyFloat(value) ==
    IF value.t \in {"int", "bool"} THEN Ok(PFloat(value.n, 0))
    ELSE LET p == NumericParts(PyStr(value))
             m == DigitsValue(p.int \o p.frac)
             ex == (IF p.eneg THEN 0 - DigitsValue(p.exp) ELSE DigitsValue(p.exp))
                   - Len(p.frac)
         IN IF p.int \o p.frac = <<>>
            THEN Raise("ValueError", <<"could not convert string to float: ">> \o PyStr(value))
            ELSE Ok(PFloat(IF p.neg THEN 0 - m ELSE m, ex))

\* the values Python takes for false in a condition
InFalsyValues(value) ==
    \/ IsNone(value)
    \/ value.t \in {"bool", "int", "float"} /\ value.n = 0
    \/ IsString(value) /\ value.s \in {<<"f", "a", "l", "s", "e">>,
                                       <<"F", "a", "l", "s", "e">>, <<"0">>, <<>>}
\* x == y for the members of BooleanConverter.false_values
InFalseValues(value) ==
    \/ IsNone(value)
    \/ value.t \in {"bool", "int", "float"} /\ value.n = 0
    \/ IsString(value) /\ value.s \in {<<"f", "a", "l", "s", "e">>,
                                       <<"F", "a", "l", "s", "e">>, <<"0">>}

\* int(string) of a value the integer regex matched
PyInt(value) == Ok(PInt(IF value.t = "str" THEN ParseInt(value.s) ELSE value.n))

\* the conversion that follows the converter's validator
AfterCheck(checked, converted) == IF Failed(checked) THEN checked ELSE converted

\* Converter.convert(key, string) of the converter class cls
Convert(cls, key, string) ==
    CASE cls = "IntegerConverter" ->
           IF IsNone(string) THEN Ok(None)
           ELSE AfterCheck(ValidatorCall(IntegerValidator(<<>>), key,
                                         DictSet(EmptyDict, key, string), "").res,
                           PyInt(string))
      [] cls = "FloatConverter" ->
           IF IsNone(string) THEN Ok(None)
           ELSE AfterCheck(ValidatorCall(NumericValidator(<<>>), key,
                                         DictSet(EmptyDict, key, string), "").res,
                           PyFloat(string))
      [] cls = "BooleanConverter" ->
           IF string.t = "list"
           THEN Raise("TypeError", <<"unhashable type: 'list'">>)
           ELSE Ok(PBool(~InFalseValues(string)))
      [] OTHER -> Ok(string)

(***************************************************************************)
(* validators.py: ValidatorRegistry and the rule language.  A rule string  *)
(* is a sequence of chunks: a name is one chunk, and "|", ":", "," and " " *)
(* and every digit are chunks of their own.                                *)
(***************************************************************************)
\* ValidatorRegistry._registry once the module is imported
BuiltinValidators ==
    [name \in {"required", "required_with", "required_without", "required_if",
               "max", "min", "between", "regex", "integer", "numeric", "in", "not_in",
               "ext_in", "ext_not_in"} |->
        CASE name = "required" -> "RequiredValidator"
          [] name = "required_with" -> "RequiredWithValidator"
          [] name = "required_without" -> "RequiredWithoutValidator"
          [] name = "required_if" -> "RequiredIfValidator"
          [] name = "max" -> "MaxValidator"
          [] name = "min" -> "MinValidator"
          [] name = "between" -> "BetweenValidator"
          [] name = "regex" -> "RegexValidator"
          [] name = "integer" -> "IntegerValidator"
          [] name = "numeric" -> "NumericValidator"
          [] name = "in" -> "InValidator"
          [] name = "not_in" -> "NotInValidator"
          [] name = "ext_in" -> "ExtInValidator"
          [] OTHER -> "ExtNotInValidator"]

\* a strip that leaves the text as it is
StripNothing(cs) == cs
\* str.strip()
RECURSIVE LStrip(_)
LStrip(cs) == IF cs # <<>> /\ Head(cs) \in Whitespace THEN LStrip(Tail(cs)) ELSE cs
RECURSIVE RStrip(_)
RStrip(cs) == IF cs # <<>> /\ cs[Len(cs)] \in Whitespace
              THEN RStrip(SubSeq(cs, 1, Len(cs) - 1)) ELSE cs
Strip(cs) == LStrip(RStrip(cs))

\* the key a text names: a name is one chunk
KeyOf(cs) == IF cs = <<>> THEN "" ELSE cs[1]

\* a registry that falls back to a default class, as the converters' does
ValidatorRegistryGetDefault(registry, name) ==
    IF Len(name) = 1 /\ name[1] \in DOMAIN registry THEN registry[name[1]]
    ELSE "RequiredValidator"
\* ValidatorRegistry.get: "" stands for None
ValidatorRegistryGet(registry, name) ==
    IF Len(name) = 1 /\ name[1] \in DOMAIN registry THEN registry[name[1]] ELSE ""

ArgOr(args, i) == IF i <= Len(args) THEN args[i].s ELSE <<>>

\* validator_class(*args): the instance, or the error of the constructor
Construct(cls, args) ==
    LET n == Len(args)
        arity == CASE cls \in {"RequiredValidator", "IntegerValidator",
                               "NumericValidator"} -> <<0, 1>>
                   [] cls \in {"RequiredWithValidator",
                               "RequiredWithoutValidator"} -> <<1, 2>>
                   [] cls = "RequiredIfValidator" -> <<2, 3>>
                   [] cls = "BetweenValidator" -> <<2, 2>>
                   [] cls = "RegexValidator" -> <<1, 2>>
                   [] cls \in {"InValidator", "NotInValidator", "ExtInValidator",
                               "ExtNotInValidator"} -> <<0, n>>
                   [] OTHER -> <<1, 1>>
        ints == IF cls \in {"MinValidator", "MaxValidator", "BetweenValidator"}
                THEN 1..n ELSE {}
    IN IF n < arity[1] \/ n > arity[2]
       THEN Raise("TypeError", <<"__init__() takes a different number of arguments">>)
       ELSE IF \E i \in ints : ~IntegerRegexMatch(args[i].s)
       THEN Raise("ValueError", <<"invalid literal for int() with base 10">>)
       ELSE Ok(CASE cls = "RequiredValidator" -> RequiredValidator(ArgOr(args, 1))
                 [] cls = "RequiredWithValidator" ->
                      RequiredWithValidator(KeyOf(args[1].s), ArgOr(args, 2))
                 [] cls = "RequiredWithoutValidator" ->
                      RequiredWithoutValidator(KeyOf(args[1].s), ArgOr(args, 2))
                 [] cls = "RequiredIfValidator" ->
                      RequiredIfValidator(KeyOf(args[1].s), args[2].s, ArgOr(args, 3))
                 [] cls = "MinValidator" -> MinValidator(args[1])
                 [] cls = "MaxValidator" -> MaxValidator(args[1])
                 [] cls = "BetweenValidator" -> BetweenValidator(args[1], args[2])
                 [] cls = "IntegerValidator" -> IntegerValidator(ArgOr(args, 1))
                 [] cls = "NumericValidator" -> NumericValidator(ArgOr(args, 1))
                 [] cls = "RegexValidator" -> RegexValidator(args[1].s, ArgOr(args, 2))
                 [] cls = "InValidator" -> InValidator({args[i].s : i \in 1..n})
                 [] cls = "NotInValidator" -> NotInValidator({args[i].s : i \in 1..n})
                 [] cls = "ExtInValidator" -> ExtInValidator({args[i].s : i \in 1..n})
                 [] cls = "ExtNotInValidator" ->
                      ExtNotInValidator({args[i].s : i \in 1..n}))

StripAll(xs) == [i \in 1..Len(xs) |-> PStr(Strip(xs[i].s))]

\* one rule of the rule string: the validator, or the error
ParseRule(registry, rule) ==
    LET hasArgs == \E i \in 1..Len(rule) : rule[i] = ":"
        parts == Split(rule, <<":">>)
        name == Strip(IF hasArgs THEN parts[1].s ELSE rule)
        args == IF hasArgs THEN StripAll(Split(parts[2].s, <<",">>)) ELSE <<>>
        validator_class == ValidatorRegistryGet(registry, name)
    IN IF hasArgs /\ Len(parts) > 2
       THEN Raise("ValueError", <<"too many values to unpack">>)
       ELSE IF validator_class = ""
       THEN Raise("Exception", <<"Can not resolve validator class: ">> \o name \o <<".">>)
       ELSE Construct(validator_class, args)

\* ValidatorRegistry.get_validators: [exc, msg, validators]
RECURSIVE ParseRules(_, _)
ParseRules(registry, rules) ==
    IF rules = <<>> THEN [exc |-> "", msg |-> <<>>, validators |-> <<>>]
    ELSE LET first == ParseRule(registry, Head(rules).s)
             rest == ParseRules(registry, Tail(rules))
         IN IF Failed(first)
            THEN [exc |-> first.exc, msg |-> first.msg, validators |-> <<>>]
            ELSE IF rest.exc # "" THEN rest
            ELSE [rest EXCEPT !.validators = <<first.val>> \o @]
get_validators(registry, validator_str) ==
    IF validator_str = <<>> THEN [exc |-> "", msg |-> <<>>, validators |-> <<>>]
    ELSE ParseRules(registry, Split(validator_str, <<"|">>))

(***************************************************************************)
(* decorators.py: the extraction sources.  A request is a function from    *)
(* the attributes it has to their mappings; extra_kwargs is               *)
(* [none |-> TRUE] for None, or [none |-> FALSE, d |-> the mapping].       *)
(***************************************************************************)
NoExtra == [none |-> TRUE, d |-> EmptyDict]
Extra(d) == [none |-> FALSE, d |-> d]
hasattr(request, attr) == attr \in DOMAIN request
\* a lookup that drops the default: request.attr.get(name)
AttrGetNoDefault(request, attr, name, default) ==
    IF hasattr(request, attr) THEN Ok(DictGet(request[attr], name, None))
    ELSE Raise("AttributeError", <<"object has no attribute ", attr>>)
\* request.attr.get(name, default)
AttrGet(request, attr, name, default) ==
    IF hasattr(request, attr) THEN Ok(DictGet(request[attr], name, default))
    ELSE Raise("AttributeError", <<"object has no attribute ", attr>>)

_get_lookup(request, name, default, kwargs, extra_kwargs) ==
    IF hasattr(request, "query_params")
    THEN AttrGet(request, "query_params", name, default)
    ELSE AttrGet(request, "GET", name, default)

_post_lookup(request, name, default, kwargs, extra_kwargs) ==
    IF hasattr(request, "data") THEN AttrGet(request, "data", name, default)
    ELSE IF hasattr(request, "DATA") THEN AttrGet(request, "DATA", name, default)
    ELSE AttrGet(request, "POST", name, default)

_file_lookup(request, name, default, kwargs, extra_kwargs) ==
    IF hasattr(request, "data") THEN AttrGet(request, "data", name, default)
    ELSE AttrGet(request, "FILES", name, default)

_post_or_get_lookup(request, name, default, kwargs, extra_kwargs) ==
    LET value == _post_lookup(request, name, None, kwargs, extra_kwargs)
    IN IF Failed(value) THEN value
       ELSE IF ~IsNone(value.val) THEN value
       ELSE _get_lookup(request, name, default, kwargs, extra_kwargs)

_header_lookup(request, name, default, kwargs, extra_kwargs) ==
    IF hasattr(request, "META") THEN AttrGet(request, "META", name, default)
    ELSE Ok(default)

_uri_lookup(request, name, default, kwargs, extra_kwargs) ==
    IF name \in DOMAIN kwargs THEN Ok(DictGet(kwargs, name, None))
    ELSE IF extra_kwargs.none
         THEN Raise("AttributeError", <<"'NoneType' object has no attribute ", "get">>)
         ELSE Ok(DictGet(extra_kwargs.d, name, default))

\* self.lookup(request, self.name, self.default, kwargs, extra_kwargs)
Lookup(lookup, request, name, default, kwargs, extra_kwargs) ==
    CASE lookup = "GET" -> _get_lookup(request, name, default, kwargs, extra_kwargs)
      [] lookup = "POST" -> _post_lookup(request, name, default, kwargs, extra_kwargs)
      [] lookup = "FILE" -> _file_lookup(request, name, default, kwargs, extra_kwargs)
      [] lookup = "POST_OR_GET" ->
           _post_or_get_lookup(request, name, default, kwargs, extra_kwargs)
      [] lookup = "HEADER" -> _header_lookup(request, name, default, kwargs, extra_kwargs)
      [] lookup = "URI" -> _uri_lookup(request, name, default, kwargs, extra_kwargs)

(***************************************************************************)
(* decorators.py: _Param.                                                  *)
(***************************************************************************)
\* _Param.__init__; "" stands for a related_name or verbose_name of None,
\* validator_classes is the list of instances given
Param(name, related_name, verbose_name, default, type, lookup, many, separator, validators, validator_classes) ==
    [name |-> name,
     related_name |-> IF related_name # "" THEN related_name ELSE name,
     verbose_name |-> IF verbose_name # "" THEN verbose_name ELSE name,
     default |-> default,
     type |-> type,
     lookup |-> lookup,
     many |-> many,
     separator |-> separator,
     validators |-> get_validators(BuiltinValidators, validators).validators
                      \o validator_classes]

\* [converter.convert(self.name, _value) for _value in values]: the list, or
\* the first error
Collect(first, rest) ==
    IF Failed(first) THEN first
    ELSE IF Failed(rest) THEN rest
    ELSE Ok(PList(<<first.val>> \o rest.val.l))
RECURSIVE ConvertEach(_, _, _)
ConvertEach(cls, key, values) ==
    IF values = <<>> THEN Ok(PList(<<>>))
    ELSE Collect(Convert(cls, key, Head(values)), ConvertEach(cls, key, Tail(values)))

\* a many=True parameter whose string is not split
ManyValuesWhole(value, separator) ==
    CASE IsString(value) -> Ok(PList(<<value>>))
      [] IsNone(value) -> Ok(PList(<<>>))
      [] OTHER -> Ok(value)
\* the element sequence of a many=True parameter (a file's lines are not
\* modelled)
ManyValues(value, separator) ==
    CASE IsString(value) ->
           IF separator = <<>> THEN Raise("ValueError", <<"empty separator">>)
           ELSE Ok(PList(Split(value.s, separator)))
      [] IsNone(value) -> Ok(PList(<<>>))
      [] value.t = "list" -> Ok(value)
      [] value.t \in {"int", "bool", "float"} ->
           Raise("TypeError", <<"'", value.t, "' object is not iterable">>)

\* a try statement without the second except clause
ReraiseUnchanged(r) == r
\* lines 146-149: a ValidationError passes, any other exception is replaced
Reraise(r) ==
    IF ~Failed(r) \/ r.exc = "ValidationError" THEN r
    ELSE ValidationError(<<"Type Convert error: ">> \o r.msg, NoCode, HTTP_400_BAD_REQUEST)

ConvertValues(values, cls, key) ==
    IF Failed(values) THEN values ELSE ConvertEach(cls, key, values.val.l)

\* the body of the try block of _parse: the converted value, or the exception
TryConvert(param, cls, value) ==
    IF param.many
    THEN ConvertValues(ManyValues(value, param.separator), cls, param.name)
    ELSE Convert(cls, param.name, value)

\* the try statement of _parse: the converted value, or the error it raises
Converted(param, cls, value) == Reraise(TryConvert(param, cls, value))

\* a value stored under the lookup name: kwargs[self.name] = converted_value
StoreUnderName(param, converted_value, kwargs) ==
    [res |-> converted_value,
     kwargs |-> IF Failed(converted_value) THEN kwargs
                ELSE DictSet(kwargs, param.name, converted_value.val)]
\* line 151: kwargs[self.related_name] = converted_value
Store(param, converted_value, kwargs) ==
    [res |-> converted_value,
     kwargs |-> IF Failed(converted_value) THEN kwargs
                ELSE DictSet(kwargs, param.related_name, converted_value.val)]

ParseValue(param, converter, value, kwargs) ==
    IF Failed(value) THEN [res |-> value, kwargs |-> kwargs]
    ELSE Store(param, Converted(param, converter, value.val), kwargs)

\* _Param._parse(request, kwargs, extra_kwargs): [res, kwargs]
_parse(param, registry, request, kwargs, extra_kwargs) ==
    ParseValue(param, ConverterRegistryGet(registry, param.type),
               Lookup(param.lookup, request, param.name, param.default, kwargs,
                      extra_kwargs),
               kwargs)

(***************************************************************************)
(* The declarations, requests and calls the model draws from.              *)
(***************************************************************************)
Chars1(c) == PStr(<<c>>)
Pipe == <<"|">>

\* the declarations a handler is written with
Declarations ==
    { \* @GET('a', type='int', default=0)
      Param("a", "", "", PInt(0), "int", "GET", FALSE, <<",">>, <<>>, <<>>),
      \* @GET('b', type='int', default=10)
      Param("b", "", "", PInt(10), "int", "GET", FALSE, <<",">>, <<>>, <<>>),
      \* @param('a', related_name='c', verbose_name='v', type='int', default=[1],
      \*        many=True, separator='|', validators='required')
      Param("a", "c", "v", PList(<<PInt(1)>>), "int", "GET", TRUE, Pipe,
            <<"required">>, <<>>),
      \* @GET('a', verbose_name='v', validators='required | min:2')
      Param("a", "", "v", None, "string", "GET", FALSE, <<",">>,
            <<"required", " ", "|", " ", "min", ":", "2">>, <<>>),
      \* @GET('b', validators='required_with:a')
      Param("b", "", "", None, "string", "GET", FALSE, <<",">>,
            <<"required_with", ":", "a">>, <<>>),
      \* @GET('b', type='bool')
      Param("b", "", "", None, "bool", "GET", FALSE, <<",">>, <<>>, <<>>),
      \* @GET('b', type='float', many=True)
      Param("b", "", "", None, "float", "GET", TRUE, <<",">>, <<>>, <<>>),
      \* @URI('a', type='int', default=0)
      Param("a", "", "", PInt(0), "int", "URI", FALSE, <<",">>, <<>>, <<>>),
      \* @HEADER('b', default='h')
      Param("b", "", "", Chars1("h"), "string", "HEADER", FALSE, <<",">>, <<>>, <<>>) }

\* the handlers: the declarations in the order they are written, top first
RECURSIVE SeqsUpTo(_, _)
SeqsUpTo(S, n) == IF n = 0 THEN {<<>>}
                  ELSE LET shorter == SeqsUpTo(S, n - 1)
                       IN shorter \cup {Append(q, d) : q \in shorter, d \in S}
Handlers == SeqsUpTo(Declarations, MaxParams) \ {<<>>}

\* query strings
Queries ==
    { EmptyDict,
      [a |-> PStr(<<"1", "0">>), b |-> PStr(<<"5">>)],
      [a |-> PStr(<<"a", "b", "c">>)],
      [a |-> PStr(<<"1", "|", "2">>)],
      [a |-> PStr(<<"1", "|", "a">>), b |-> PStr(<<"5">>)],
      [a |-> PStr(<<"x">>), b |-> PStr(<<>>)],
      [b |-> PStr(<<"5">>)] }

Meta == [b |-> PStr(<<"m">>)]

\* objects passed as positional arguments: cls is the class, attrs the
\* attributes of the request (of the view's request, for a view), kwargs an
\* APIView's kwargs
HttpRequest(query) ==
    [cls |-> "HttpRequest", truthy |-> TRUE, kwargs |-> EmptyDict,
     attrs |-> [GET |-> query, POST |-> EmptyDict, FILES |-> EmptyDict, META |-> Meta]]
RestRequest(query) ==
    [cls |-> "RestRequest", truthy |-> TRUE, kwargs |-> EmptyDict,
     attrs |-> [query_params |-> query, data |-> EmptyDict, META |-> Meta]]
View(query) == [HttpRequest(query) EXCEPT !.cls = "View"]
APIView(query, kwargs) == [RestRequest(query) EXCEPT !.cls = "APIView", !.kwargs = kwargs]
Object(truthy) ==
    [cls |-> "object", truthy |-> truthy, kwargs |-> EmptyDict,
     attrs |-> [k \in {} |-> EmptyDict]]

ArgLists ==
    {<<>>, <<Object(TRUE)>>, <<Object(FALSE)>>}
    \cup {<<HttpRequest(q)>> : q \in Queries}
    \cup {<<Object(TRUE), HttpRequest(q)>> : q \in Queries}
    \cup {<<RestRequest(q)>> : q \in {EmptyDict, [b |-> PStr(<<"5">>)]}}
    \cup {<<View(q)>> : q \in {EmptyDict, [a |-> PStr(<<"a", "b", "c">>)]}}
    \cup {<<APIView(EmptyDict, kw)>> : kw \in {EmptyDict, [a |-> PStr(<<"3">>)]}}

\* the caller's keyword arguments (path captures)
KwargsSet == {EmptyDict, [a |-> PStr(<<"7">>)]}

(***************************************************************************)
(* The state.                                                              *)
(***************************************************************************)
VARIABLES
    written,        \* the declarations as written on the handler, top first
    wrapped,        \* whether the function carries __params__ (is the wrapper)
    wrappers,       \* the _decorator functions created so far
    __params__,     \* _decorator.__params__
    _registry,      \* ConverterRegistry._registry
    classes,        \* the converter classes defined so far
    registry0,      \* ConverterRegistry._registry before the last statement
    statement,      \* the last statement run on the converters
    pc,             \* where the wrapper is: idle, parse, validate, returned, raised
    calls,          \* invocations of the wrapper so far
    args,           \* the call's positional arguments
    kwargs0,        \* the call's keyword arguments as the caller gave them
    kwargs,         \* kwargs, the outgoing keyword map
    request,        \* the attributes of the resolved request
    extra_kwargs,   \* extra_kwargs
    i,              \* the descriptor the current pass is at
    j,              \* the validator of descriptor i the validation pass is at
    error,          \* the exception the call raised
    handler,        \* the invocation of the wrapped handler: [called, args, kwargs]
    log,            \* the steps of the current call, in order
    \* the registries and validator instances taken on their own
    stage,          \* where the operation under study is
    rule,           \* the rule string a declaration is given
    instances,      \* the validator instances, shared by every evaluation
    made,           \* the instances as their constructors left them
    input,          \* the arguments of the last evaluation
    outcome,        \* what the last operation returned or raised
    evals,          \* evaluations so far
    threads,        \* the evaluations in progress, one per thread
    custom          \* the message each instance was given by its caller (<<>>: none)

vars == <<written, wrapped, wrappers, __params__, _registry, pc, calls, args, kwargs0, kwargs,
          request, extra_kwargs, i, j, error, handler, log,
          stage, rule, instances, made, input, outcome, evals, threads,
          classes, registry0, statement, custom>>
\* the variables of the units taken on their own, and those of the wrapper
unitVars == <<stage, rule, instances, made, input, outcome, evals, threads,
              classes, registry0, statement, custom>>
callVars == <<written, wrapped, wrappers, __params__, pc, calls, args, kwargs0, kwargs,
              request, extra_kwargs, i, j, error, handler, log>>

NotCalled == [called |-> FALSE, args |-> <<>>, kwargs |-> EmptyDict]
NoError == Ok(None)
\* no evaluation yet: v is the position of the instance evaluated, before
\* the message the evaluation found on it
NoInput == [v |-> 0, before |-> <<>>, key |-> "", params |-> EmptyDict, verbose_key |-> ""]

\* no statement was run on the converters since the import
NoStatement == [op |-> "", cls |-> "", base |-> "", meta |-> NoMeta, name |-> None,
                value |-> None]
ConvertersIdle ==
    /\ classes = BuiltinClasses
    /\ registry0 = BuiltinConverters
    /\ statement = NoStatement

\* no unit is under study
UnitsIdle ==
    /\ stage = "off"
    /\ rule = <<>>
    /\ instances = <<>>
    /\ made = <<>>
    /\ input = NoInput
    /\ outcome = NoError
    /\ evals = 0
    /\ threads = <<>>
    /\ ConvertersIdle
    /\ custom = <<>>

\* no handler is decorated and no call is made
WrapperIdle ==
    /\ written = <<>>
    /\ wrapped = FALSE
    /\ wrappers = 0
    /\ __params__ = <<>>
    /\ pc = "idle"
    /\ calls = 0
    /\ args = <<>>
    /\ kwargs0 = EmptyDict
    /\ kwargs = EmptyDict
    /\ request = [k \in {} |-> EmptyDict]
    /\ extra_kwargs = NoExtra
    /\ i = 0
    /\ j = 0
    /\ error = NoError
    /\ handler = NotCalled
    /\ log = <<>>

Init ==
    /\ UnitsIdle
    /\ written \in Handlers
    /\ wrapped = FALSE
    /\ wrappers = 0
    /\ __params__ = <<>>
    /\ _registry = BuiltinConverters
    /\ pc = "idle"
    /\ calls = 0
    /\ args = <<>>
    /\ kwargs0 = EmptyDict
    /\ kwargs = EmptyDict
    /\ request = [k \in {} |-> EmptyDict]
    /\ extra_kwargs = NoExtra
    /\ i = 0
    /\ j = 0
    /\ error = NoError
    /\ handler = NotCalled
    /\ log = <<>>

\* the declaration Python applies next: decorators apply bottom-up
NextDeclaration(w, applied) == w[Len(w) - applied]

\* a descriptor list kept in the order the declarations are written
StackTop(isWrapper, params, self) == IF isWrapper THEN <<self>> \o params ELSE <<self>>
\* _Param.__call__(func): the __params__ of the function it returns
Stack(isWrapper, params, self) == IF isWrapper THEN Append(params, self) ELSE <<self>>

\* a declaration that wraps whatever function it is given
WrapAgain(isWrapper, n) == n + 1
\* lines 92-96, 129-130: a function that carries __params__ is returned as it
\* is; for any other a new _decorator is defined around it
Wrap(isWrapper, n) == IF isWrapper THEN n ELSE n + 1

\* one decorator of the handler's definition is applied
Decorate ==
    /\ pc = "idle" /\ calls = 0
    /\ Len(__params__) < Len(written)
    /\ __params__' = Stack(wrapped, __params__, NextDeclaration(written, Len(__params__)))
    /\ wrapped' = TRUE
    /\ wrappers' = Wrap(wrapped, wrappers)
    /\ UNCHANGED <<written, _registry, pc, calls, args, kwargs0, kwargs, request,
                   extra_kwargs, i, j, error, handler, log>>
    /\ UNCHANGED unitVars

IsView(o) == o.cls \in {"View", "APIView"}
IsRequest(o) == o.cls \in {"RestRequest", "HttpRequest"}

\* the object _decorator takes for the request (lines 102-116)
ResolveRequest(a) ==
    IF IsView(a[1]) THEN a[1]
    ELSE IF \E k \in 1..Len(a) : IsRequest(a[k])
         THEN a[CHOOSE k \in 1..Len(a) :
                    IsRequest(a[k]) /\ \A m \in 1..(k - 1) : ~IsRequest(a[m])]
         ELSE a[1]
ResolveExtra(a) == IF a[1].cls = "APIView" THEN Extra(a[1].kwargs) ELSE NoExtra

\* a wrapper that leaves out the test `if request:`
RunsPipelineAlways(a) == Len(a) >= 1
\* whether _decorator runs the pipeline: it has arguments and `if request:`
RunsPipeline(a) == Len(a) >= 1 /\ ResolveRequest(a).truthy

\* _decorator(*args, **kwargs) up to the first _parse
Call(a, kw) ==
    /\ pc \in {"idle", "returned", "raised"}
    /\ Len(__params__) = Len(written)
    /\ calls < MaxCalls
    /\ calls' = calls + 1
    /\ args' = a
    /\ kwargs0' = kw
    /\ kwargs' = kw
    /\ error' = NoError
    /\ j' = 1
    /\ i' = 1
    /\ IF RunsPipeline(a)
       THEN /\ request' = ResolveRequest(a).attrs
            /\ extra_kwargs' = ResolveExtra(a)
            /\ pc' = "parse"
            /\ handler' = NotCalled
            /\ log' = <<>>
       ELSE /\ request' = [k \in {} |-> EmptyDict]
            /\ extra_kwargs' = NoExtra
            /\ pc' = "returned"
            /\ handler' = [called |-> TRUE, args |-> a, kwargs |-> kw]
            /\ log' = <<[op |-> "call", d |-> 0, v |-> 0, ok |-> TRUE]>>
    /\ UNCHANGED <<written, wrapped, wrappers, __params__, _registry>>
    /\ UNCHANGED unitVars

\* the first loop: _param._parse(request, kwargs, extra_kwargs)
\* a single pass: the validators of a descriptor run right after its _parse
ParsedInterleaved(r) ==
    /\ log' = Append(log, [op |-> "parse", d |-> i, v |-> 0, ok |-> ~Failed(r.res)])
    /\ kwargs' = r.kwargs
    /\ IF Failed(r.res)
       THEN error' = r.res /\ pc' = "raised" /\ i' = i
       ELSE error' = error /\ pc' = "validate" /\ i' = i
\* a failed conversion that does not abort the call
ParsedContinue(r) ==
    /\ log' = Append(log, [op |-> "parse", d |-> i, v |-> 0, ok |-> ~Failed(r.res)])
    /\ kwargs' = r.kwargs
    /\ error' = error
    /\ IF i = Len(__params__)
       THEN pc' = "validate" /\ i' = 1
       ELSE pc' = "parse" /\ i' = i + 1
Parsed(r) ==
    /\ log' = Append(log, [op |-> "parse", d |-> i, v |-> 0, ok |-> ~Failed(r.res)])
    /\ kwargs' = r.kwargs
    /\ IF Failed(r.res)
       THEN error' = r.res /\ pc' = "raised" /\ i' = i
       ELSE /\ error' = error
            /\ IF i = Len(__params__)
               THEN pc' = "validate" /\ i' = 1
               ELSE pc' = "parse" /\ i' = i + 1
ParseStep ==
    /\ pc = "parse"
    /\ Parsed(_parse(__params__[i], _registry, request, kwargs, extra_kwargs))
    /\ UNCHANGED <<written, wrapped, wrappers, __params__, _registry, calls, args, kwargs0,
                   request, extra_kwargs, j, handler>>
    /\ UNCHANGED unitVars

\* the second loop: validator(_param.related_name, kwargs, _param.verbose_name)
\* a failed validator that does not abort the call
ValidatedContinue(r) ==
    /\ __params__' = [__params__ EXCEPT ![i].validators[j].message = r.message]
    /\ log' = Append(log, [op |-> "validate", d |-> i, v |-> j, ok |-> ~Failed(r.res)])
    /\ error' = IF Failed(r.res) THEN r.res ELSE error
    /\ pc' = pc
    /\ j' = j + 1
Validated(r) ==
    /\ __params__' = [__params__ EXCEPT ![i].validators[j].message = r.message]
    /\ log' = Append(log, [op |-> "validate", d |-> i, v |-> j, ok |-> ~Failed(r.res)])
    /\ IF Failed(r.res)
       THEN error' = r.res /\ pc' = "raised" /\ j' = j
       ELSE error' = error /\ pc' = pc /\ j' = j + 1
ValidateStep ==
    /\ pc = "validate"
    /\ i <= Len(__params__)
    /\ j <= Len(__params__[i].validators)
    /\ Validated(ValidatorCall(__params__[i].validators[j], __params__[i].related_name,
                               kwargs, __params__[i].verbose_name))
    /\ UNCHANGED <<written, wrapped, wrappers, _registry, calls, args, kwargs0, kwargs, request,
                   extra_kwargs, i, handler>>
    /\ UNCHANGED unitVars

\* the validators of descriptor i are done: on to the next descriptor
NextParam ==
    /\ pc = "validate"
    /\ i <= Len(__params__)
    /\ j > Len(__params__[i].validators)
    /\ i' = i + 1
    /\ j' = 1
    /\ UNCHANGED <<written, wrapped, wrappers, __params__, _registry, pc, calls, args, kwargs0,
                   kwargs, request, extra_kwargs, error, handler, log>>
    /\ UNCHANGED unitVars

\* return func(*args, **kwargs)
Invoke ==
    /\ pc = "validate"
    /\ i > Len(__params__)
    /\ handler' = [called |-> TRUE, args |-> args, kwargs |-> kwargs]
    /\ log' = Append(log, [op |-> "call", d |-> 0, v |-> 0, ok |-> TRUE])
    /\ pc' = "returned"
    /\ UNCHANGED <<written, wrapped, wrappers, __params__, _registry, calls, args, kwargs0,
                   kwargs, request, extra_kwargs, i, j, error>>
    /\ UNCHANGED unitVars

Invocation == \E a \in ArgLists, kw \in KwargsSet : Call(a, kw)

Next == Decorate \/ Invocation \/ ParseStep \/ ValidateStep \/ NextParam \/ Invoke

Spec == Init /\ [][Next]_vars
(***************************************************************************)
(* What a call must do, computed from the descriptors and the call alone.  *)
(***************************************************************************)
\* the call runs the pipeline
Pipeline == calls >= 1 /\ RunsPipeline(args)

\* the keyword map once the first k descriptors went through _parse
RECURSIVE KwargsAfter(_)
KwargsAfter(k) ==
    IF k = 0 THEN kwargs0
    ELSE _parse(__params__[k], _registry, request, KwargsAfter(k - 1), extra_kwargs).kwargs
FullMap == KwargsAfter(Len(__params__))

\* the outcome of _parse of descriptor k, and of its validator v on the full map
ParseResult(k) ==
    _parse(__params__[k], _registry, request, KwargsAfter(k - 1), extra_kwargs).res
ValidatorResult(k, v) ==
    ValidatorCall(__params__[k].validators[v], __params__[k].related_name, FullMap,
                  __params__[k].verbose_name).res

ParseFailures == {k \in 1..Len(__params__) : Failed(ParseResult(k))}
FailingValidators(k) ==
    {v \in 1..Len(__params__[k].validators) : Failed(ValidatorResult(k, v))}
ValidatorFailures == {k \in 1..Len(__params__) : FailingValidators(k) # {}}
Min(S) == CHOOSE x \in S : \A y \in S : x <= y
Last(q) == q[Len(q)]

(***************************************************************************)
(* C1: in a call that resolved a request the handler is invoked if and     *)
(* only if every descriptor converted without error and every validator    *)
(* passed; a failed step is the last step of the call, so no validator     *)
(* runs after a failed one and the handler is not invoked.                 *)
(***************************************************************************)
C1_HandlerIffAllPass ==
    Pipeline =>
        /\ pc \in {"returned", "raised"} =>
              (handler.called <=> (ParseFailures = {} /\ ValidatorFailures = {}))
        /\ handler.called <=> pc = "returned"
        /\ \A k \in 1..Len(log) : ~log[k].ok => (k = Len(log) /\ pc = "raised")
        /\ \A k \in 1..Len(log) : log[k].op = "call" => k = Len(log)

\* the first of two validators of a descriptor failed: the call is over
C1_Witness ==
    /\ Pipeline /\ pc = "raised" /\ ~handler.called
    /\ Last(log).op = "validate" /\ Last(log).v = 1
    /\ Len(__params__[Last(log).d].validators) = 2
    /\ error.code = "required_validator"

(***************************************************************************)
(* C2: no validator of any descriptor runs before every descriptor of the  *)
(* handler went through extraction and conversion: the steps of a call     *)
(* begin with one successful _parse per descriptor before the first        *)
(* validator, the validators read the map that holds every converted       *)
(* value, and a cross-parameter validator reads the converted value of its *)
(* sibling whichever of the two comes first in the descriptor list.        *)
(***************************************************************************)
Writers(key) == {k \in 1..Len(__params__) : __params__[k].related_name = key}
Max(S) == CHOOSE x \in S : \A y \in S : x >= y
\* the value the map holds under key once every descriptor is converted
SiblingValue(key) ==
    IF Writers(key) = {} THEN DictGet(kwargs0, key, None)
    ELSE ParseResult(Max(Writers(key))).val
Validating ==
    /\ pc = "validate" /\ i <= Len(__params__) /\ j <= Len(__params__[i].validators)
C2_ValidatorsAfterAllParsed ==
    Pipeline =>
        /\ \A k \in 1..Len(log) : log[k].op = "validate" =>
              /\ k > Len(__params__)
              /\ \A d \in 1..Len(__params__) :
                    log[d] = [op |-> "parse", d |-> d, v |-> 0, ok |-> TRUE]
        /\ pc = "validate" => kwargs = FullMap
        /\ Validating /\ __params__[i].validators[j].other # "" =>
              DictGet(kwargs, __params__[i].validators[j].other, None)
                  = SiblingValue(__params__[i].validators[j].other)

\* required_with:a is about to run on a descriptor that precedes the
\* descriptor of a in the list, and reads the integer a was converted to
C2_Witness ==
    /\ Pipeline /\ Validating
    /\ __params__[i].validators[j].cls = "RequiredWithValidator"
    /\ \E k \in Writers(__params__[i].validators[j].other) : k > i
    /\ DictGet(kwargs, __params__[i].validators[j].other, None) = PInt(10)

(***************************************************************************)
(* C3: the error the caller sees when parameters are invalid.  A parameter *)
(* is invalid when its conversion fails or when one of its validators      *)
(* fails on the map of the converted values; the descriptors are taken in  *)
(* the order of the descriptor list.                                       *)
(***************************************************************************)
Invalid == ParseFailures \cup ValidatorFailures

\* C3 as stated: when more than one parameter is invalid, the error raised
\* is the one of the first invalid parameter
C3_FirstInvalidWins ==
    (Pipeline /\ pc = "raised" /\ Cardinality(Invalid) >= 2) =>
        Last(log).d = Min(Invalid)

\* C3: because every conversion runs before any validator, the error raised
\* is the one of the first descriptor whose extraction or conversion fails,
\* if there is one, and otherwise the one of the first failing validator of
\* the first descriptor that has a failing validator
C3_FirstFailingStepWins ==
    (Pipeline /\ pc = "raised") =>
        IF ParseFailures # {}
        THEN /\ Last(log) = [op |-> "parse", d |-> Min(ParseFailures), v |-> 0,
                             ok |-> FALSE]
             /\ error = ParseResult(Min(ParseFailures))
        ELSE /\ ValidatorFailures # {}
             /\ Last(log) = [op |-> "validate", d |-> Min(ValidatorFailures),
                             v |-> Min(FailingValidators(Min(ValidatorFailures))),
                             ok |-> FALSE]
             /\ error = ValidatorResult(Min(ValidatorFailures),
                                        Min(FailingValidators(Min(ValidatorFailures))))

\* the first descriptor has a failing validator, the second fails to
\* convert: the error is the second descriptor's
C3_Witness ==
    /\ Pipeline /\ pc = "raised"
    /\ 1 \in ValidatorFailures /\ 1 \notin ParseFailures
    /\ 2 \in ParseFailures
    /\ __params__[1].related_name # __params__[2].related_name
    /\ Last(log).op = "parse" /\ Last(log).d = 2
    /\ error.exc = "ValidationError"

(***************************************************************************)
(* C4: the order in which the passes take the stacked declarations.        *)
(***************************************************************************)
\* a descriptor as declared: the messages its validators rebind left out
Declared(p) ==
    [p EXCEPT !.validators = [v \in DOMAIN @ |-> [@[v] EXCEPT !.message = <<>>]]]

\* C4 as stated: the k-th extraction takes the k-th declaration as written
\* on the handler, and so does the validation pass
C4_WrittenOrder ==
    Pipeline =>
        \A k \in 1..Len(log) : log[k].op \in {"parse", "validate"} =>
            /\ Declared(__params__[log[k].d]) = Declared(written[log[k].d])
            /\ \A m \in 1..(k - 1) : log[m].op = log[k].op => log[m].d <= log[k].d

\* C4: decorators apply bottom-up, so the descriptor list holds the
\* declarations in the reverse of the order they are written; both passes
\* follow the list: the declaration written last is extracted first and
\* validated first, the one written first is processed last
C4_ReverseWrittenOrder ==
    Pipeline =>
        /\ Len(__params__) = Len(written)
        /\ \A k \in 1..Len(written) :
              Declared(__params__[k]) = Declared(written[Len(written) + 1 - k])
        /\ \A k \in 1..Len(log) :
              /\ log[k].op = "parse" => log[k].d = k
              /\ \A m \in 1..(k - 1) :
                    (log[m].op = "validate" /\ log[k].op = "validate") =>
                        \/ log[m].d < log[k].d
                        \/ log[m].d = log[k].d /\ log[m].v < log[k].v

\* two different declarations, each with a validator: the one written last
\* was extracted first and validated first
C4_Witness ==
    /\ Pipeline /\ Len(written) = 2
    /\ Declared(written[1]) # Declared(written[2])
    /\ \E k, m \in 1..Len(log) :
          /\ k < m /\ log[k].op = "validate" /\ log[m].op = "validate"
          /\ Declared(__params__[log[k].d]) = Declared(written[2])
          /\ Declared(__params__[log[m].d]) = Declared(written[1])

(***************************************************************************)
(* C5: a call in which no request is resolvable.                           *)
(***************************************************************************)
\* some argument of the call is a request, or the first is a view carrying one
Resolvable(a) ==
    Len(a) >= 1 /\ (IsView(a[1]) \/ \E k \in 1..Len(a) : IsRequest(a[k]))

\* the handler was invoked at once with the arguments of the call
PassedThrough ==
    /\ pc = "returned"
    /\ handler = [called |-> TRUE, args |-> args, kwargs |-> kwargs0]
    /\ log = <<[op |-> "call", d |-> 0, v |-> 0, ok |-> TRUE]>>
    /\ error = NoError

\* C5 as stated: when no request object is resolvable among the positional
\* arguments, the handler is invoked at once with the original positional
\* and keyword arguments, no extraction, conversion or validation runs and
\* the call raises nothing
C5_PassThroughWithoutRequest ==
    (calls >= 1 /\ ~Resolvable(args)) => PassedThrough

\* the object the wrapper takes for the request is falsy
FalsyRequest(a) == IF Len(a) = 0 THEN FALSE ELSE ~ResolveRequest(a).truthy

\* C5: the wrapper passes the call through exactly when there is no
\* positional argument or the object it takes for the request is falsy; the
\* object it takes is the first argument when that is a view (its request),
\* else the first argument that is a request, else the first argument
\* whatever it is, and on a truthy one the extraction runs on it
C5_PassThroughIffNoArgsOrFalsy ==
    calls >= 1 =>
        /\ (Len(args) = 0 \/ FalsyRequest(args)) => PassedThrough
        /\ (Len(args) >= 1 /\ ~FalsyRequest(args)) =>
              /\ ~PassedThrough
              /\ request = ResolveRequest(args).attrs
              /\ ~Resolvable(args) => request = args[1].attrs
              /\ log # <<>> => log[1].op = "parse"

\* no request is resolvable, yet the extraction ran on the first argument
\* and the handler received a keyword the caller did not pass
C5_Witness ==
    /\ calls >= 1 /\ args # <<>> /\ ~Resolvable(args)
    /\ handler.called /\ handler.kwargs # kwargs0
    /\ log[1].op = "parse"

(***************************************************************************)
(* C6: the failures of the conversion step.                                *)
(***************************************************************************)
\* the raw value descriptor k extracts, and what the body of its try block
\* yields on it
RawValue(k) ==
    Lookup(__params__[k].lookup, request, __params__[k].name, __params__[k].default,
           KwargsAfter(k - 1), extra_kwargs)
TryResult(k) ==
    TryConvert(__params__[k], ConverterRegistryGet(_registry, __params__[k].type),
               RawValue(k).val)
\* the conversion of descriptor k failed
ConversionFailed(k) == ~Failed(RawValue(k)) /\ Failed(TryResult(k))
\* the text t occurs in the message m
Embeds(m, t) == \E k \in 0..(Len(m) - Len(t)) : SubSeq(m, k + 1, k + Len(t)) = t

\* C6 as stated: a failed conversion reaches the caller as a ValidationError and the
\* handler is not invoked; a ValidationError of the converter arrives
\* unchanged, any other exception arrives as a ValidationError whose message
\* embeds the original text and whose code identifies the type-conversion
\* failure
C6_ConversionFailureCoded ==
    (Pipeline /\ pc = "raised" /\ Last(log).op = "parse"
       /\ ConversionFailed(Last(log).d)) =>
        /\ ~handler.called
        /\ error.exc = "ValidationError"
        /\ TryResult(Last(log).d).exc = "ValidationError" =>
              error = TryResult(Last(log).d)
        /\ TryResult(Last(log).d).exc # "ValidationError" =>
              /\ Embeds(error.msg, TryResult(Last(log).d).msg)
              /\ error.code # NoCode

\* C6: a failed conversion reaches the caller as a ValidationError and the
\* handler is not invoked; a ValidationError of the converter arrives
\* unchanged (an int parameter given abc fails with the integer validator's
\* error), any other exception arrives as a ValidationError whose message is
\* "Type Convert error: " followed by the original text, with status 400 and
\* no error code
C6_ConversionFailureUncoded ==
    (Pipeline /\ pc = "raised" /\ Last(log).op = "parse"
       /\ ConversionFailed(Last(log).d)) =>
        /\ ~handler.called
        /\ error.exc = "ValidationError"
        /\ TryResult(Last(log).d).exc = "ValidationError" =>
              error = TryResult(Last(log).d)
        /\ (__params__[Last(log).d].type = "int" /\ ~__params__[Last(log).d].many
              /\ RawValue(Last(log).d).val = PStr(<<"a", "b", "c">>)) =>
              /\ error.code = "integer_validator"
              /\ error.status = HTTP_400_BAD_REQUEST
        /\ TryResult(Last(log).d).exc # "ValidationError" =>
              /\ error.msg = <<"Type Convert error: ">> \o TryResult(Last(log).d).msg
              /\ error.code = NoCode
              /\ error.status = HTTP_400_BAD_REQUEST

\* float('') raised a ValueError, which reached the caller wrapped
C6_Witness ==
    /\ Pipeline /\ pc = "raised" /\ Last(log).op = "parse"
    /\ ConversionFailed(Last(log).d)
    /\ TryResult(Last(log).d).exc = "ValueError"
    /\ error.exc = "ValidationError" /\ error.msg[1] = "Type Convert error: "

(***************************************************************************)
(* C7: the value injected when the declared name is absent from the        *)
(* descriptor's source.                                                    *)
(***************************************************************************)
\* the query mapping of the request
Query == IF hasattr(request, "query_params") THEN request.query_params
         ELSE IF hasattr(request, "GET") THEN request.GET ELSE EmptyDict
\* the keys the source of descriptor k holds when the descriptor is extracted
SourceKeys(k) ==
    CASE __params__[k].lookup = "GET" -> DOMAIN Query
      [] __params__[k].lookup = "HEADER" ->
           IF hasattr(request, "META") THEN DOMAIN request.META ELSE {}
      [] __params__[k].lookup = "URI" ->
           DOMAIN KwargsAfter(k - 1)
             \cup (IF extra_kwargs.none THEN {} ELSE DOMAIN extra_kwargs.d)
Absent(k) == __params__[k].name \notin SourceKeys(k)
\* descriptor k is the last one that writes its key
LastWriter(k) == k = Max(Writers(__params__[k].related_name))
\* the handler received v for descriptor k
Injected(k, v) == DictGet(handler.kwargs, __params__[k].related_name, None) = v
\* the default of descriptor k after the conversion step
ConvertedDefault(k) ==
    Converted(__params__[k], ConverterRegistryGet(_registry, __params__[k].type),
              __params__[k].default).val
Offset == Param("a", "", "", PInt(0), "int", "GET", FALSE, <<",">>, <<>>, <<>>)
Limit == Param("b", "", "", PInt(10), "int", "GET", FALSE, <<",">>, <<>>, <<>>)
\* int parameters offset (a, default 0) and limit (b, default 10): no query
\* parameters give (0, 10), a=10&b=5 gives (10, 5)
Scenario1 ==
    (written = <<Offset, Limit>> /\ kwargs0 = EmptyDict) =>
        /\ Query = EmptyDict => handler.kwargs = [a |-> PInt(0), b |-> PInt(10)]
        /\ Query = [a |-> PStr(<<"1", "0">>), b |-> PStr(<<"5">>)] =>
              handler.kwargs = [a |-> PInt(10), b |-> PInt(5)]

\* C7 as stated: a descriptor whose name is absent from its source injects
\* its default, None when none was declared
C7_DefaultInjected ==
    (Pipeline /\ handler.called) =>
        /\ \A k \in 1..Len(__params__) :
              (LastWriter(k) /\ Absent(k)) => Injected(k, __params__[k].default)
        /\ Scenario1

\* C7: a descriptor whose name is absent from its source injects its default
\* as the conversion step turns it: a bool descriptor without default injects
\* False, a many descriptor without default the empty list, an int default
\* itself, and None stays None for the string, int and float types
C7_ConvertedDefaultInjected ==
    (Pipeline /\ handler.called) =>
        /\ \A k \in 1..Len(__params__) :
              (LastWriter(k) /\ Absent(k)) =>
                  /\ Injected(k, ConvertedDefault(k))
                  /\ __params__[k].many /\ IsNone(__params__[k].default) =>
                        Injected(k, PList(<<>>))
                  /\ ~__params__[k].many /\ __params__[k].type = "bool"
                       /\ IsNone(__params__[k].default) => Injected(k, PBool(FALSE))
                  /\ ~__params__[k].many /\ __params__[k].type # "bool"
                       /\ __params__[k].default.t \in {"none", "int"} =>
                        Injected(k, __params__[k].default)
        /\ Scenario1

\* no query parameters: the int descriptor with default 0 injected 0, the
\* bool descriptor without default injected False
C7_Witness ==
    /\ Pipeline /\ handler.called /\ Len(__params__) = 2
    /\ Absent(1) /\ Absent(2)
    /\ \E k, m \in 1..2 :
          /\ __params__[k].type = "bool" /\ IsNone(__params__[k].default)
          /\ Injected(k, PBool(FALSE))
          /\ __params__[m].default = PInt(0) /\ Injected(m, PInt(0))
          /\ __params__[m].related_name # __params__[k].related_name

(***************************************************************************)
(* C8: many=True.                                                          *)
(***************************************************************************)
\* the occurrences of the one-character separator c in cs
Count(cs, c) == Cardinality({n \in 1..Len(cs) : cs[n] = c})
\* the conversion of one element by the converter of descriptor k
Element(k, raw) ==
    Convert(ConverterRegistryGet(_registry, __params__[k].type), __params__[k].name, raw)
\* the value the map holds for descriptor k
Stored(k) == DictGet(kwargs, __params__[k].related_name, None)
\* the list of the converted elements, or that an element fails
ElementsOf(k, ok, values) ==
    /\ ok <=> \A n \in 1..Len(values) : ~Failed(Element(k, values[n]))
    /\ ok => /\ Stored(k).t = "list"
             /\ Len(Stored(k).l) = Len(values)
             /\ \A n \in 1..Len(values) : Stored(k).l[n] = Element(k, values[n]).val
\* the _parse of descriptor k, a many descriptor, is the last step so far
ManyParsed(k) ==
    /\ Pipeline /\ Len(log) = k /\ log[k].op = "parse"
    /\ __params__[k].many /\ ~Failed(RawValue(k))

\* C8: a string is split on the separator into one more segment than it has
\* separators and the result is the list of the converted segments, in
\* order; None yields the empty list; a list is converted element by
\* element; one failing element fails the parameter.  With type int,
\* separator | and default [1]: no input yields [1], 1|2 yields [1, 2] and
\* 1|a fails
C8_ManyConvertsEachElement ==
    \A k \in 1..Len(__params__) : ManyParsed(k) =>
        /\ (IsString(RawValue(k).val) /\ Len(__params__[k].separator) = 1) =>
              /\ Len(Split(RawValue(k).val.s, __params__[k].separator))
                    = Count(RawValue(k).val.s, __params__[k].separator[1]) + 1
              /\ ElementsOf(k, log[k].ok,
                            Split(RawValue(k).val.s, __params__[k].separator))
        /\ IsNone(RawValue(k).val) => (log[k].ok /\ Stored(k) = PList(<<>>))
        /\ RawValue(k).val.t = "list" => ElementsOf(k, log[k].ok, RawValue(k).val.l)
        /\ (__params__[k].type = "int" /\ __params__[k].separator = Pipe
              /\ __params__[k].default = PList(<<PInt(1)>>)) =>
              /\ Absent(k) => (log[k].ok /\ Stored(k) = PList(<<PInt(1)>>))
              /\ RawValue(k).val = PStr(<<"1", "|", "2">>) =>
                    (log[k].ok /\ Stored(k) = PList(<<PInt(1), PInt(2)>>))
              /\ RawValue(k).val = PStr(<<"1", "|", "a">>) =>
                    (~log[k].ok /\ pc = "raised" /\ error.exc = "ValidationError")

\* 1|2 was split and converted to [1, 2]
C8_Witness ==
    \E k \in 1..Len(__params__) :
        /\ ManyParsed(k) /\ log[k].ok
        /\ RawValue(k).val = PStr(<<"1", "|", "2">>)
        /\ Stored(k) = PList(<<PInt(1), PInt(2)>>)

(***************************************************************************)
(* C9: what the pipeline changes in the keyword map, and what the handler  *)
(* receives.                                                               *)
(***************************************************************************)
\* the descriptors converted so far in the call, and the keys they wrote
ParsedCount == Cardinality({k \in 1..Len(log) : log[k].op = "parse" /\ log[k].ok})
KeysWritten == {__params__[k].related_name : k \in 1..ParsedCount}
LastWritten(key) ==
    ParseResult(Max({k \in 1..ParsedCount : __params__[k].related_name = key})).val

\* C9: the map holds the caller's keywords and, under its related_name, the
\* converted value of every descriptor converted so far, a descriptor's
\* value replacing a caller's keyword of the same name and nothing else
\* changing; a required validator judges the value under related_name; on
\* success the handler receives the original positional arguments and the
\* accumulated map
C9_StoredUnderRelatedName ==
    Pipeline =>
        /\ DOMAIN kwargs = (DOMAIN kwargs0) \cup KeysWritten
        /\ \A x \in (DOMAIN kwargs0) \ KeysWritten : kwargs[x] = kwargs0[x]
        /\ \A x \in KeysWritten : kwargs[x] = LastWritten(x)
        /\ \A k \in 1..Len(log) :
              (log[k].op = "validate"
                 /\ __params__[log[k].d].validators[log[k].v].cls = "RequiredValidator") =>
                  (log[k].ok <=>
                     required_valid(DictGet(kwargs, __params__[log[k].d].related_name,
                                            None)))
        /\ handler.called =>
              /\ ParsedCount = Len(__params__)
              /\ handler.args = args
              /\ handler.kwargs = kwargs

\* the caller passed a=7; the handler received the value of descriptor a in
\* its place and, under c, the value of a descriptor named a with
\* related_name c, whose required validator passed on it
C9_Witness ==
    /\ Pipeline /\ handler.called
    /\ kwargs0 = [a |-> PStr(<<"7">>)]
    /\ DOMAIN handler.kwargs = {"a", "c"}
    /\ handler.kwargs["a"] = PInt(0)
    /\ handler.kwargs["c"] = PList(<<PInt(1)>>)
    /\ \E k \in 1..Len(log) :
          /\ log[k].op = "validate" /\ log[k].ok
          /\ __params__[log[k].d].related_name = "c"
          /\ __params__[log[k].d].name = "a"

(***************************************************************************)
(* C10: the name an error message gives the parameter.                     *)
(***************************************************************************)
\* the message m names the key: a key is one chunk of a message
Names(m, key) == \E n \in 1..Len(m) : m[n] = key
\* the descriptor whose step failed
FailedParam == __params__[Last(log).d]

\* C10: when a parameter declared with a verbose name fails, in a validator
\* or in the conversion of its raw value, the ValidationError message names
\* it by the verbose name and not by the lookup name
C10_ErrorNamesVerboseName ==
    (Pipeline /\ pc = "raised" /\ error.exc = "ValidationError"
       /\ FailedParam.verbose_name # FailedParam.name) =>
        /\ Names(error.msg, FailedParam.verbose_name)
        /\ ~Names(error.msg, FailedParam.name)

(***************************************************************************)
(* The rule language and the validators on their own.  A rule string is    *)
(* resolved once, when the descriptor is declared; the instances it made   *)
(* are then evaluated request after request.                               *)
(***************************************************************************)
MaxEvals == 2       \* evaluations of the declared instances

\* single rules, as a declaration writes them
RuleAtoms ==
    {<<"required">>,
     <<" ", "required", " ">>,
     <<"required_with", ":", "b">>,
     <<"required_without", ":", " ", "b">>,
     <<"required_if", ":", "b", ",", "x">>,
     <<"min", ":", "2">>,
     <<"max", ":", " ", "3", " ">>,
     <<"between", ":", "2", ",", "3">>,
     <<"between", ":", " ", "2", " ", ",", " ", "3">>,
     <<"in", " ", ":", " ", "a", ",", " ", "B">>,
     <<"not_in", ":", "a">>,
     <<"ext_in", ":", "t">>,
     <<"ext_not_in", ":", ".", "t">>,
     <<"regex", ":", "^", "\\w+", "$">>,
     <<"integer">>,
     <<"numeric">>,
     <<"nosuch">>,
     <<"min", ":", "x">>,
     <<"between", ":", "5">>,
     <<"min", ":", "1", ":", "2">>}
\* rules joined by the pipe
RuleChains ==
    {<<"required", " ", "|", " ", "between", ":", "5", ",", "1", "0">>,
     <<"required", "|", "between", ":", "5", ",", "1", "0">>,
     <<"required", " ", "|", " ", "max", ":", " ", "5", " ", "|", " ", "in", " ", ":",
       " ", "1", ",", " ", "3">>,
     <<"min", ":", "2", "|", "max", ":", "3">>,
     <<"required", "|", "nosuch">>,
     <<"nosuch", "|", "required">>,
     <<"min", ":", "x", "|", "nosuch">>,
     <<"nosuch", "|", "min", ":", "x">>,
     <<"required", "|">>}
RuleStrings == {<<>>} \cup RuleAtoms \cup RuleChains

\* the values a request submits under the key a
Submitted ==
    {None, PStr(<<>>), PStr(<<" ">>), PStr(<<"\t", " ">>), PStr(<<"a">>), PStr(<<"B">>),
     PStr(<<"a", "b">>), PStr(<<"a", "b", "c">>), PStr(<<"1", "2", "3", "4">>),
     PStr(<<"1", "0">>), PInt(1), PInt(2), PInt(3), PInt(4),
     PFile(<<"a", ".", "T">>, 1), PFile(<<"a", ".", "T">>, 2),
     PFile(<<"a", ".", "t">>, 3), PFile(<<"a", ".", "p">>, 4), PFile(<<"a">>, 2),
     PBool(TRUE), PList(<<PInt(1)>>), PFloat(25, -1)}
\* the values a request submits under the key b
SubmittedOther == {None, PStr(<<"x">>), PStr(<<"y">>), PStr(<<>>)}
\* the request parameters: a key is absent when its value is None
ParamsOf(a, b) ==
    LET d == IF IsNone(a) THEN EmptyDict ELSE DictSet(EmptyDict, "a", a)
    IN IF IsNone(b) THEN d ELSE DictSet(d, "b", b)
\* the arguments of one evaluation
Evaluations ==
    {[v |-> 0, before |-> <<>>, key |-> "a", params |-> ParamsOf(a, b), verbose_key |-> vk] :
        a \in Submitted, b \in SubmittedOther, vk \in {"", "v"}}

InitRules ==
    /\ WrapperIdle
    /\ _registry = BuiltinConverters
    /\ stage = "written"
    /\ rule \in RuleStrings
    /\ instances = <<>>
    /\ made = <<>>
    /\ input = NoInput
    /\ outcome = NoError
    /\ evals = 0
    /\ threads = <<>>
    /\ ConvertersIdle
    /\ custom = <<>>

\* what the declaration keeps of get_validators' result r
Resolved(r) ==
    IF r.exc # ""
    THEN /\ stage' = "config_error"
         /\ outcome' = Raise(r.exc, r.msg)
         /\ instances' = <<>>
         /\ made' = <<>>
    ELSE /\ stage' = "declared"
         /\ outcome' = NoError
         /\ instances' = r.validators
         /\ made' = r.validators

\* _Param.__init__: the rule string is resolved as the declaration runs
Declare ==
    /\ stage = "written"
    /\ Resolved(get_validators(BuiltinValidators, rule))
    /\ UNCHANGED <<rule, input, evals, threads, _registry>>
    /\ UNCHANGED <<classes, registry0, statement, custom>>
    /\ UNCHANGED callVars

\* what an evaluation with result r leaves behind
Evaluated(k, inp, r) ==
    /\ instances' = [instances EXCEPT ![k].message = r.message]
    /\ outcome' = r.res
    /\ input' = [inp EXCEPT !.v = k, !.before = instances[k].message]
    /\ evals' = evals + 1

\* validator(key, params, verbose_key) on the k-th declared instance
CallValidator(k, inp) ==
    /\ stage \in {"declared", "built"}
    /\ evals < MaxEvals
    /\ k \in 1..Len(instances)
    /\ (IsNone(DictGet(inp.params, "b", None)) \/ instances[k].other # "")
    /\ Evaluated(k, inp, ValidatorCall(instances[k], inp.key, inp.params, inp.verbose_key))
    /\ UNCHANGED <<stage, rule, made, threads, _registry>>
    /\ UNCHANGED <<classes, registry0, statement, custom>>
    /\ UNCHANGED callVars

NextRules ==
    \/ Declare
    \/ \E k \in 1..MaxParams + 1, inp \in Evaluations : CallValidator(k, inp)

SpecRules == InitRules /\ [][NextRules]_vars

(***************************************************************************)
(* C11, C12: what a rule string resolves to.                               *)
(***************************************************************************)
\* cs without its whitespace: in the rule strings declared here whitespace
\* stands only around names and arguments
Unspaced(cs) == SelectSeq(cs, LAMBDA c : c \notin Whitespace)
Pipes(cs) == Cardinality({n \in 1..Len(cs) : cs[n] = "|"})
\* the k-th rule of a rule string, and the name it begins with
RuleText(cs, k) == Split(cs, <<"|">>)[k].s
RuleName(cs, k) == IF Unspaced(RuleText(cs, k)) = <<>> THEN <<>>
                   ELSE <<Unspaced(RuleText(cs, k))[1]>>
Registered(name) == name # <<>> /\ name[1] \in DOMAIN BuiltinValidators
Unregistered(cs) == {k \in 1..Pipes(cs) + 1 : ~Registered(RuleName(cs, k))}
\* a rule before the first unregistered name whose own constructor fails
EarlierFails(cs) ==
    \E k \in 1..Min(Unregistered(cs)) - 1 :
        get_validators(BuiltinValidators, RuleText(cs, k)).exc # ""
ScenarioRule == <<"required", " ", "|", " ", "between", ":", "5", ",", "1", "0">>

\* C11: a rule string that resolves gives one instance per rule, in the
\* order written, each of the class registered under the rule's name and
\* built from the rule's arguments as strings; whitespace around names and
\* arguments makes no difference; the empty rule string gives the empty
\* list; `required | between:5,10` gives [Required, Between(5, 10)]
C11_OneInstancePerRule ==
    /\ (stage # "written" /\ get_validators(BuiltinValidators, Unspaced(rule)).exc = "") =>
          stage = "declared"
    /\ stage = "declared" =>
          /\ rule = <<>> => made = <<>>
          /\ rule # <<>> =>
                /\ Len(made) = Pipes(rule) + 1
                /\ \A k \in 1..Len(made) :
                      made[k].cls = BuiltinValidators[RuleName(rule, k)[1]]
          /\ made = get_validators(BuiltinValidators, Unspaced(rule)).validators
          /\ rule = ScenarioRule =>
                made = <<RequiredValidator(<<>>),
                         BetweenValidator(PStr(<<"5">>), PStr(<<"1", "0">>))>>
          /\ rule = <<"in", " ", ":", " ", "a", ",", " ", "B">> =>
                made = <<InValidator({<<"a">>, <<"B">>})>>
          /\ rule = <<"max", ":", " ", "3", " ">> => made = <<MaxValidator(PStr(<<"3">>))>>

\* `required | between:5,10` was declared: a Required, then a Between with
\* the bounds 5 and 10
C11_Witness ==
    /\ stage = "declared"
    /\ rule = ScenarioRule
    /\ Len(made) = 2
    /\ made[1].cls = "RequiredValidator"
    /\ made[2].cls = "BetweenValidator"
    /\ made[2].min_value = 5
    /\ made[2].max_value = 10

\* C12: a rule string with a name that is not registered fails as the
\* descriptor is declared, with an error that is not a ValidationError and
\* with no list kept, also when earlier rules resolved; the error is the
\* resolution error naming the rule unless an earlier rule's constructor
\* failed first; no instance of such a rule string is ever evaluated
C12_UnknownRuleFailsAtDeclaration ==
    /\ (stage # "written" /\ rule # <<>> /\ Unregistered(rule) # {}) =>
          /\ stage = "config_error"
          /\ Failed(outcome)
          /\ outcome.exc # "ValidationError"
          /\ instances = <<>>
          /\ evals = 0
          /\ ~EarlierFails(rule) =>
                outcome = Raise("Exception",
                                <<"Can not resolve validator class: ">>
                                  \o RuleName(rule, Min(Unregistered(rule))) \o <<".">>)
    /\ evals > 0 =>
          /\ stage = "declared"
          /\ Unregistered(rule) = {}
          /\ outcome.exc # "Exception"

\* `required|nosuch` was declared: the first rule resolved, the second did
\* not, and the declaration raised the resolution error
C12_Witness ==
    /\ stage = "config_error"
    /\ rule = <<"required", "|", "nosuch">>
    /\ outcome = Raise("Exception", <<"Can not resolve validator class: ", "nosuch", ".">>)
    /\ instances = <<>>

(***************************************************************************)
(* C13: the absent value.                                                  *)
(***************************************************************************)
\* the last evaluation: the value under the key, the instance as declared
Target == DictGet(input.params, input.key, None)
Other == DictGet(input.params, made[input.v].other, None)
Fresh == made[input.v]
Passed == outcome = Ok(PBool(TRUE))
RequiredFamily == {"RequiredValidator", "RequiredWithValidator",
                   "RequiredWithoutValidator", "RequiredIfValidator"}

\* C13: every validator except Required passes an absent value without
\* evaluating its predicate
C13_NullableExceptRequired ==
    (evals > 0 /\ IsNone(Target) /\ Fresh.cls # "RequiredValidator") => Passed

\* C13, amended: every validator except Required, RequiredWith,
\* RequiredWithout and RequiredIf passes an absent value and leaves the
\* instance's message as the call found it (is_valid did not run); those
\* four evaluate their predicate on the absent value
C13_NullableExceptRequiredFamily ==
    (evals > 0 /\ IsNone(Target)) =>
        /\ Fresh.cls \notin RequiredFamily =>
              /\ Passed
              /\ instances[input.v].message = input.before
        /\ Fresh.cls \in RequiredFamily =>
              (Passed <=> is_valid(Fresh, None, input.params))

\* a Between instance was evaluated on a request without the key: it
\* passed and its message is the one it was declared with
C13_Witness ==
    /\ evals = 1
    /\ IsNone(Target)
    /\ Fresh.cls = "BetweenValidator"
    /\ Passed
    /\ instances[input.v].message = <<"The ", "{key}", " is invalid.">>

(***************************************************************************)
(* C14: the conditional requirements.                                      *)
(***************************************************************************)
\* None, or a string that is empty after trimming
IsBlank(v) == IsNone(v) \/ (IsString(v) /\ Strip(v.s) = <<>>)
Rejected == outcome.exc = "ValidationError"

\* C14: RequiredWith(other) fails exactly when other is not None and the
\* value is blank; RequiredWithout(other) exactly when other is None and the
\* value is blank; RequiredIf(other, x) exactly when other is not None, its
\* string form is x and the value is blank; otherwise each passes
C14_ConditionalRequired ==
    evals > 0 =>
        /\ Fresh.cls = "RequiredWithValidator" =>
              /\ Rejected <=> (~IsNone(Other) /\ IsBlank(Target))
              /\ Passed <=> ~Rejected
        /\ Fresh.cls = "RequiredWithoutValidator" =>
              /\ Rejected <=> (IsNone(Other) /\ IsBlank(Target))
              /\ Passed <=> ~Rejected
        /\ Fresh.cls = "RequiredIfValidator" =>
              /\ Rejected <=> (/\ ~IsNone(Other)
                               /\ PyStr(Other) = Fresh.other_value
                               /\ IsBlank(Target))
              /\ Passed <=> ~Rejected

\* RequiredIf(b, x) was evaluated on a blank string while b was x: it failed
C14_Witness ==
    /\ evals > 0
    /\ Fresh.cls = "RequiredIfValidator"
    /\ Other = PStr(<<"x">>)
    /\ Target = PStr(<<"\t", " ">>)
    /\ Rejected
    /\ outcome.code = "required_if_validator"

(***************************************************************************)
(* C15: Between.                                                           *)
(***************************************************************************)
\* what Between measures: the value of a number, the length of a string,
\* the size of a file, as a fraction num/den
IsNumber(v) == v.t \in {"int", "bool", "float"}
Measured(v) == IsNumber(v) \/ IsString(v) \/ v.t = "file"
Magnitude(v) ==
    CASE IsString(v) -> [num |-> Len(v.s), den |-> 1]
      [] v.t = "float" /\ v.e < 0 -> [num |-> v.n, den |-> Pow10(0 - v.e)]
      [] v.t = "float" -> [num |-> v.n * Pow10(v.e), den |-> 1]
      [] OTHER -> [num |-> v.n, den |-> 1]
Within(lo, m, hi) == lo * m.den <= m.num /\ m.num <= hi * m.den
\* the outcome of a new instance v on the last evaluation's arguments
OutcomeOf(v) == ValidatorCall(v, input.key, input.params, input.verbose_key).res
MinAndMaxPass(lo, hi) ==
    /\ OutcomeOf(MinValidator(PInt(lo))) = Ok(PBool(TRUE))
    /\ OutcomeOf(MaxValidator(PInt(hi))) = Ok(PBool(TRUE))

\* C15: Between(lo, hi) passes a value that is not None exactly when
\* lo <= m <= hi, m being the value of a number, the length of a string,
\* the size of a file; it fails at lo-1 and at hi+1; and it passes exactly
\* when Min(lo) and Max(hi) both pass the value
C15_BetweenInclusive ==
    (evals > 0 /\ Fresh.cls = "BetweenValidator" /\ ~IsNone(Target)) =>
        /\ Passed \/ Rejected
        /\ Measured(Target) =>
              /\ Passed <=> Within(Fresh.min_value, Magnitude(Target), Fresh.max_value)
              /\ Magnitude(Target).den = 1
                   /\ Magnitude(Target).num \in {Fresh.min_value, Fresh.max_value} => Passed
              /\ Magnitude(Target).den = 1
                   /\ Magnitude(Target).num \in {Fresh.min_value - 1, Fresh.max_value + 1}
                   => Rejected
        /\ Passed <=> MinAndMaxPass(Fresh.min_value, Fresh.max_value)

\* Between(2, 3) was evaluated on a file of 4 bytes, one above the upper
\* bound: it failed, with the message of the file branch
C15_Witness ==
    /\ evals > 0
    /\ Fresh.cls = "BetweenValidator"
    /\ Fresh.min_value = 2 /\ Fresh.max_value = 3
    /\ Target.t = "file" /\ Target.n = 4
    /\ Rejected
    /\ outcome.msg = <<"The ", "a", " must be between ", "2", " and ", "3", " ", "bytes", ".">>

(***************************************************************************)
(* C20: an instance evaluated again.                                       *)
(***************************************************************************)
\* C20: whatever evaluations an instance went through before, its outcome
\* on given arguments, message included, is the outcome of a newly
\* constructed instance on the same arguments; so the same arguments give
\* the same outcome every time
C20_SameAsFreshInstance ==
    evals > 0 => outcome = OutcomeOf(Fresh)

\* Min(2), left with the message of the string branch by an earlier
\* evaluation, was evaluated on the number 1: it failed with the message of
\* the number branch
C20_Witness ==
    /\ evals = 2
    /\ Fresh.cls = "MinValidator"
    /\ input.before = <<"The ", "{key}", " must be at least ", "2", " ", "characters", ".">>
    /\ Target = PInt(1)
    /\ outcome = ValidationError(<<"The ", "a", " must be at least ", "2", ".">>,
                                 "min_validator", HTTP_400_BAD_REQUEST)

(***************************************************************************)
(* One validator instance shared by requests served at the same time.  A   *)
(* descriptor's instances live as long as the decorated handler, so every  *)
(* thread that serves the handler calls the same instance.  A thread can   *)
(* be suspended between any two lines of __call__: is_valid (line 111)     *)
(* binds self.message on the instance, the raise (line 112) reads it.      *)
(***************************************************************************)
MaxThreads == 2     \* requests served at the same time

\* the rules whose instances choose their message by branch
SharedRules == {<<"min", ":", "2">>, <<"max", ":", "3">>, <<"between", ":", "2", ",", "3">>}
\* the values the requests submit
SharedValues ==
    {None, PStr(<<"a">>), PStr(<<"1", "2", "3", "4">>), PInt(1), PInt(4),
     PFile(<<"a", ".", "t">>, 1), PFile(<<"a", ".", "t">>, 4)}
\* a thread about to call the instance on value
Called(value) == [pc |-> "called", value |-> value, valid |-> FALSE, res |-> NoError]

InitShared ==
    /\ WrapperIdle
    /\ _registry = BuiltinConverters
    /\ stage = "shared"
    /\ rule \in SharedRules
    /\ instances = get_validators(BuiltinValidators, rule).validators
    /\ made = instances
    /\ input = NoInput
    /\ outcome = NoError
    /\ evals = 0
    /\ threads \in [1..MaxThreads -> {Called(value) : value \in SharedValues}]
    /\ ConvertersIdle
    /\ custom = <<>>

\* lines 103-111 in thread t: the nullable short cut, else clean and is_valid,
\* which binds self.message on the shared instance
IsValidStep(t) ==
    /\ stage = "shared"
    /\ threads[t].pc = "called"
    /\ IF IsNone(threads[t].value) /\ instances[1].nullable
       THEN /\ threads' = [threads EXCEPT ![t].pc = "returned", ![t].res = Ok(PBool(TRUE))]
            /\ UNCHANGED instances
       ELSE /\ threads' = [threads EXCEPT
                              ![t].pc = "checked",
                              ![t].valid = is_valid(instances[1],
                                                    Clean(instances[1], threads[t].value),
                                                    ParamsOf(threads[t].value, None))]
            /\ instances' = [instances EXCEPT
                                ![1].message = MessageAfter(instances[1],
                                                            Clean(instances[1],
                                                                  threads[t].value))]
    /\ UNCHANGED <<stage, rule, made, input, outcome, evals, _registry>>
    /\ UNCHANGED <<classes, registry0, statement, custom>>
    /\ UNCHANGED callVars

\* lines 111-113 in thread t: return True, or raise with self.message as the
\* instance holds it now
RaiseStep(t) ==
    /\ stage = "shared"
    /\ threads[t].pc = "checked"
    /\ threads' = [threads EXCEPT
                      ![t].pc = "returned",
                      ![t].res = IF threads[t].valid THEN Ok(PBool(TRUE))
                                 ELSE ValidationError(
                                          Format(instances[1].message, "a", threads[t].value,
                                                 Clean(instances[1], threads[t].value)),
                                          instances[1].code, instances[1].status_code)]
    /\ UNCHANGED <<stage, rule, instances, made, input, outcome, evals, _registry>>
    /\ UNCHANGED <<classes, registry0, statement, custom>>
    /\ UNCHANGED callVars

NextShared == \E t \in 1..MaxThreads : IsValidStep(t) \/ RaiseStep(t)

SpecShared == InitShared /\ [][NextShared]_vars

(***************************************************************************)
(* C19: evaluations of one instance at the same time.                      *)
(***************************************************************************)
\* the outcome of the instance, as constructed, on a thread's value alone
Alone(t) == ValidatorCall(made[1], "a", ParamsOf(threads[t].value, None), "").res

\* C19: every thread that evaluated the shared instance returned what the
\* instance returns on its value alone: a failing evaluation raised the
\* message of its own branch, whatever the other threads did meanwhile
C19_OwnBranchMessage ==
    \A t \in 1..MaxThreads : threads[t].pc = "returned" => threads[t].res = Alone(t)

(***************************************************************************)
(* The converters on their own: class statements and register calls        *)
(* change ConverterRegistry._registry, get reads it, and                   *)
(* BooleanConverter.convert is applied to a value.                         *)
(***************************************************************************)
MaxStatements == 2  \* class statements and register calls

\* the classes a program defines, after the tests' TestConverter
NewClasses == {"TestConverter", "TestConverterWithMeta"}
\* the Meta a class body declares
Metas ==
    {NoMeta,
     ClassMeta(None, FALSE),
     ClassMeta(None, TRUE),
     ClassMeta(PStr(<<"test">>), FALSE),
     ClassMeta(PTuple(<<"test", "example">>), FALSE),
     ClassMeta(PStr(<<"int">>), FALSE)}
\* the bases a class statement names
Bases == {"BaseConverter", "StringConverter", "IntegerConverter"} \cup NewClasses
\* the argument of Converter.register: None, a name or a tuple of names
RegisterNames == {None, PStr(<<"example">>), PTuple(<<"test", "int">>)}
\* the names get is asked for: "" stands for None
GetNames ==
    {"", "string", "str", "integer", "int", "float", "boolean", "bool", "file", "test",
     "example", "TestConverter", "TestConverterWithMeta", "nosuch"}
\* the values BooleanConverter.convert is given
BooleanValues ==
    {None, PBool(FALSE), PBool(TRUE), PInt(0), PInt(1), PFloat(0, 0), PFloat(25, -1),
     PStr(<<"f", "a", "l", "s", "e">>), PStr(<<"F", "a", "l", "s", "e">>),
     PStr(<<"F", "A", "L", "S", "E">>), PStr(<<"0">>), PStr(<<"0", ".", "0">>), PStr(<<>>),
     PStr(<<"t", "r", "u", "e">>), PStr(<<" ">>), PStr(<<"1">>),
     PList(<<>>), PList(<<PInt(0)>>), PFile(<<"a", ".", "t">>, 0)}

InitConverters ==
    /\ WrapperIdle
    /\ _registry = BuiltinConverters
    /\ stage = "converters"
    /\ rule = <<>>
    /\ instances = <<>>
    /\ made = <<>>
    /\ input = NoInput
    /\ outcome = NoError
    /\ evals = 0
    /\ threads = <<>>
    /\ ConvertersIdle
    /\ custom = <<>>

\* the statement `class name(base)` whose body declares meta
DefineConverter(name, base, meta) ==
    /\ stage = "converters"
    /\ evals < MaxStatements
    /\ name \notin DOMAIN classes
    /\ base \in DOMAIN classes
    /\ classes' = WithClass(classes, name, base, meta)
    /\ _registry' = ConverterMetaClassNew(classes, _registry, name, base, meta)
    /\ registry0' = _registry
    /\ statement' = [NoStatement EXCEPT !.op = "class", !.cls = name, !.base = base,
                                        !.meta = meta]
    /\ outcome' = NoError
    /\ evals' = evals + 1
    /\ UNCHANGED <<stage, rule, instances, made, input, threads, custom>>
    /\ UNCHANGED callVars

\* the call cls.register(name) of a defined converter class
RegisterConverter(cls, name) ==
    /\ stage = "converters"
    /\ evals < MaxStatements
    /\ cls \in DOMAIN classes
    /\ _registry' = BaseConverterRegister(classes, _registry, cls, name)
    /\ registry0' = _registry
    /\ statement' = [NoStatement EXCEPT !.op = "register", !.cls = cls, !.name = name]
    /\ outcome' = NoError
    /\ evals' = evals + 1
    /\ UNCHANGED <<stage, rule, instances, made, input, threads, classes, custom>>
    /\ UNCHANGED callVars

\* the call ConverterRegistry.get(name)
GetConverter(name) ==
    /\ stage = "converters"
    /\ statement' = [NoStatement EXCEPT
                        !.op = "get",
                        !.name = IF name = "" THEN None ELSE PStr(<<name>>)]
    /\ outcome' = Ok(PClass(ConverterRegistryGet(_registry, name)))
    /\ registry0' = _registry
    /\ UNCHANGED <<stage, rule, instances, made, input, evals, threads, classes, _registry, custom>>
    /\ UNCHANGED callVars

\* the call BooleanConverter.convert('a', value)
ConvertBoolean(value) ==
    /\ stage = "converters"
    /\ statement' = [NoStatement EXCEPT !.op = "convert", !.cls = "BooleanConverter",
                                        !.value = value]
    /\ outcome' = Convert("BooleanConverter", "a", value)
    /\ registry0' = _registry
    /\ UNCHANGED <<stage, rule, instances, made, input, evals, threads, classes, _registry, custom>>
    /\ UNCHANGED callVars

NextConverters ==
    \/ \E name \in NewClasses, base \in Bases, meta \in Metas : DefineConverter(name, base, meta)
    \/ \E cls \in {"StringConverter", "FloatConverter"} \cup NewClasses, name \in RegisterNames :
          RegisterConverter(cls, name)
    \/ \E name \in GetNames : GetConverter(name)
    \/ \E value \in BooleanValues : ConvertBoolean(value)

SpecConverters == InitConverters /\ [][NextConverters]_vars

(***************************************************************************)
(* C16: the default of ConverterRegistry.get.                              *)
(***************************************************************************)
\* the names a value names: a string names one, a tuple its elements
NamesOf(name) == IF name.t = "list" THEN {name.l[k].s[1] : k \in 1..Len(name.l)}
                 ELSE {name.s[1]}
\* the converter the registry gives a name
Got(name) == ConverterRegistryGet(_registry, name)

DeclaredNames ==
    IF statement.meta.own /\ ~IsNone(statement.meta.name) THEN NamesOf(statement.meta.name)
    ELSE {statement.cls}

\* C17: a class statement registers the class under the names its own Meta
\* declares, or under its class name when its Meta declares none, and does
\* not register a class whose Meta says abstract; afterwards get gives the
\* new class for each such name, and the entries under other names are as
\* they were
C17_RegistersUnderOwnNames ==
    statement.op = "class" =>
        IF statement.meta.own /\ statement.meta.abstract
        THEN _registry = registry0
        ELSE /\ \A n \in DeclaredNames : Got(n) = statement.cls
             /\ DOMAIN _registry = (DOMAIN registry0) \cup DeclaredNames
             /\ \A n \in (DOMAIN registry0) \ DeclaredNames : _registry[n] = registry0[n]

(***************************************************************************)
(* C18: BooleanConverter.                                                  *)
(***************************************************************************)
\* None, false, "false", "False", 0, "0": a float equal to 0 is the number 0
ListedFalse(v) ==
    \/ v \in {None, PBool(FALSE), PInt(0), PStr(<<"f", "a", "l", "s", "e">>),
              PStr(<<"F", "a", "l", "s", "e">>), PStr(<<"0">>)}
    \/ (v.t = "float" /\ v.n = 0)
\* a value that has no hash
Unhashable(v) == v.t = "list"

\* C18: BooleanConverter.convert returns false exactly for None, false,
\* "false", "False", 0 and "0", and true for every other value
C18_FalseExactlyForListed ==
    statement.op = "convert" => outcome = Ok(PBool(~ListedFalse(statement.value)))

\* C18, amended: BooleanConverter.convert returns false exactly for the
\* values equal to None, false, "false", "False", 0 or "0", and true for
\* every other value that has a hash, "0.0", the empty string and "true"
\* among them; for a value without a hash (a list) it raises TypeError
C18_FalseExactlyForListedHashable ==
    statement.op = "convert" =>
        /\ ~Unhashable(statement.value) =>
              outcome = Ok(PBool(~ListedFalse(statement.value)))
        /\ Unhashable(statement.value) => outcome.exc = "TypeError"
        /\ statement.value \in {PStr(<<"0", ".", "0">>), PStr(<<>>),
                                PStr(<<"t", "r", "u", "e">>)} => outcome = Ok(PBool(TRUE))

\* convert was given "0.0" and returned true
C18_Witness ==
    /\ statement.op = "convert"
    /\ statement.value = PStr(<<"0", ".", "0">>)
    /\ outcome = Ok(PBool(TRUE))


(***************************************************************************)
(* Custom messages: an instance built by its constructor, with or without  *)
(* a message argument, then given messages with set_message and evaluated. *)
(***************************************************************************)
\* the custom templates a caller gives
CustomMessages ==
    {<<"Bad ", "{key}", ": ", "{value}", " / ", "{show_value}">>, <<"No ", "{key}">>}
\* the message arguments of a constructor: <<>> stands for None
MessageArgs == {<<>>} \cup CustomMessages
\* the constructor calls, each with the message it was given
Built ==
    {[v |-> RequiredValidator(m), m |-> m] : m \in MessageArgs}
    \cup {[v |-> RequiredWithValidator("b", m), m |-> m] : m \in MessageArgs}
    \cup {[v |-> RequiredWithoutValidator("b", m), m |-> m] : m \in MessageArgs}
    \cup {[v |-> RequiredIfValidator("b", <<"x">>, m), m |-> m] : m \in MessageArgs}
    \cup {[v |-> RegexValidator(<<"^", "\\w+", "$">>, m), m |-> m] : m \in MessageArgs}
    \cup {[v |-> IntegerValidator(m), m |-> m] : m \in MessageArgs}
    \cup {[v |-> NumericValidator(m), m |-> m] : m \in MessageArgs}
    \cup {[v |-> c, m |-> <<>>] :
            c \in {MinValidator(PInt(2)), MaxValidator(PInt(3)),
                   BetweenValidator(PInt(2), PInt(3)),
                   InValidator({<<"a">>, <<"B">>}), NotInValidator({<<"a">>}),
                   ExtInValidator({<<"t">>}), ExtNotInValidator({<<".", "t">>})}}

InitMessages ==
    /\ WrapperIdle
    /\ _registry = BuiltinConverters
    /\ stage = "built"
    /\ rule = <<>>
    /\ \E b \in Built :
        /\ instances = <<b.v>>
        /\ made = <<b.v>>
        /\ custom = <<b.m>>
    /\ input = NoInput
    /\ outcome = NoError
    /\ evals = 0
    /\ threads = <<>>
    /\ ConvertersIdle

\* BaseValidator.set_message(message): rebinds self.message, returns self
set_message(v, message) == [v EXCEPT !.message = message]

\* instance.set_message(message) on the k-th instance: the call raises nothing
SetMessage(k, message) ==
    /\ stage = "built"
    /\ k \in 1..Len(instances)
    /\ instances' = [instances EXCEPT ![k] = set_message(instances[k], message)]
    /\ custom' = [custom EXCEPT ![k] = message]
    /\ outcome' = NoError
    /\ UNCHANGED <<stage, rule, made, input, evals, threads, _registry>>
    /\ UNCHANGED <<classes, registry0, statement>>
    /\ UNCHANGED callVars

NextMessages ==
    \/ \E message \in CustomMessages : SetMessage(1, message)
    \/ \E inp \in Evaluations : CallValidator(1, inp)

SpecMessages == InitMessages /\ [][NextMessages]_vars

\* the key a message shows
ShownKey == IF input.verbose_key = "" THEN input.key ELSE input.verbose_key
\* the custom message the evaluated instance was last given
Given == custom[input.v]

\* C21: a failing evaluation of an instance that was given a custom message,
\* by set_message or by its constructor, raises that message with {key},
\* {value} and {show_value} interpolated, whatever the validator's kind
C21_CustomMessageRaised ==
    (stage = "built" /\ evals > 0 /\ Given # <<>> /\ Rejected)
        => outcome.msg = Format(Given, ShownKey, Target, Clean(Fresh, Target))


(***************************************************************************)
(* C22: stacked declarations share one wrapper.                            *)
(***************************************************************************)
\* the declarations applied so far: the last ones written, bottom-up
Applied == SubSeq(written, Len(written) - Len(__params__) + 1, Len(written))
\* how many of the descriptors ps are the declaration p
Occurrences(ps, p) == Cardinality({k \in 1..Len(ps) : Declared(ps[k]) = Declared(p)})
\* how many times the current call invoked the handler
HandlerCalls == Cardinality({k \in 1..Len(log) : log[k].op = "call"})

\* C22: however many declarations are stacked on a handler, one wrapper is
\* created, by the first; its descriptor list holds the declarations applied
\* so far, each as many times as it is written; and one call of the wrapper
\* invokes the handler at most once
C22_OneWrapperOneCall ==
    /\ wrappers = (IF wrapped THEN 1 ELSE 0)
    /\ wrapped <=> Len(__params__) >= 1
    /\ \A k \in 1..Len(written) :
          Occurrences(__params__, written[k]) = Occurrences(Applied, written[k])
    /\ \A k \in 1..Len(__params__) :
          \E m \in 1..Len(written) : Declared(__params__[k]) = Declared(written[m])
    /\ HandlerCalls <= 1
    /\ handler.called <=> HandlerCalls = 1

\* two different declarations were stacked, and a call reached the handler
\* after both passes
C22_Witness ==
    /\ Len(written) = 2 /\ written[1] # written[2]
    /\ Len(__params__) = 2
    /\ wrappers = 1
    /\ Pipeline /\ pc = "returned"
    /\ HandlerCalls = 1


(***************************************************************************)
(* C23: the message of Min, Max and Between follows the current value.     *)
(***************************************************************************)
Sized == {"MinValidator", "MaxValidator", "BetweenValidator"}
\* the branch the current value takes
Characters == IsString(Target)
Bytes == ~IsString(Target) /\ Target.t = "file"
\* how the message of each branch ends
Ending ==
    IF Characters THEN <<" ", "characters", ".">>
    ELSE IF Bytes THEN <<" ", "bytes", ".">> ELSE <<".">>
\* the message of the current value's branch, for the key shown
BranchMessage ==
    CASE Fresh.cls = "MinValidator" ->
           <<"The ", ShownKey, " must be at least ">> \o PyStr(PInt(Fresh.min_value)) \o Ending
      [] Fresh.cls = "MaxValidator" /\ Bytes ->
           <<"The ", ShownKey, " must not be at greater ">> \o PyStr(PInt(Fresh.max_value))
             \o Ending
      [] Fresh.cls = "MaxValidator" ->
           <<"The ", ShownKey, " may not be greater than ">> \o PyStr(PInt(Fresh.max_value))
             \o Ending
      [] OTHER ->
           <<"The ", ShownKey, " must be between ">> \o PyStr(PInt(Fresh.min_value))
             \o <<" and ">> \o PyStr(PInt(Fresh.max_value)) \o Ending

\* C23: evaluations taken one at a time: a Min, Max or Between instance that
\* fails raises the message of the branch its current value takes
\* (characters for a string, bytes for a file, the plain bound for any other
\* value), whatever message earlier evaluations left on the instance
C23_MessageOfCurrentBranch ==
    (evals > 0 /\ Fresh.cls \in Sized /\ Rejected) => outcome.msg = BranchMessage

\* Max(3), left with the message of the string branch by an earlier
\* evaluation, was evaluated on a file of 4 bytes: it failed with the
\* message of the file branch
C23_Witness ==
    /\ evals = 2
    /\ Fresh.cls = "MaxValidator"
    /\ input.before = <<"The ", "{key}", " may not be greater than ", "3", " ",
                        "characters", ".">>
    /\ Bytes /\ Target.n = 4
    /\ Rejected
    /\ outcome.msg = <<"The ", "a", " must not be at greater ", "3", " ", "bytes", ".">>


(***************************************************************************)
(* C24: what a descriptor extracts, with and without its siblings.         *)
(***************************************************************************)
\* the descriptor the last step extracted, 0 when the last step is no _parse
Extracted == IF log # <<>> /\ Last(log).op = "parse" THEN Last(log).d ELSE 0
\* the raw value descriptor k gets when it is the only one on the handler:
\* from the request and the caller's own keyword arguments
RawAlone(k) ==
    Lookup(__params__[k].lookup, request, __params__[k].name, __params__[k].default,
           kwargs0, extra_kwargs)
\* _parse of descriptor k when it is the only one on the handler
ParsedAlone(k) == _parse(__params__[k], _registry, request, kwargs0, extra_kwargs)

\* C24: the raw value a descriptor extracts is the one it extracts when it
\* is alone on the handler, whatever its source, and so is the value it
\* stores or the error it raises: the siblings extracted before it, one that
\* stores under this descriptor's name included, make no difference
C24_ExtractionIgnoresSiblings ==
    (Pipeline /\ Extracted > 0) =>
        /\ RawValue(Extracted) = RawAlone(Extracted)
        /\ Last(log).ok <=> ~Failed(ParsedAlone(Extracted).res)
        /\ Last(log).ok =>
              Stored(Extracted) = ParsedAlone(Extracted).res.val
        /\ ~Last(log).ok => error = ParsedAlone(Extracted).res


(***************************************************************************)
(* Handlers with a required parameter that has no default.                 *)
(***************************************************************************)
\* the type names a declaration gives: the registered ones, and one that is
\* not registered
TypeNames ==
    {"string", "str", "integer", "int", "float", "boolean", "bool", "file", "nosuch"}
Lookups == {"GET", "POST", "POST_OR_GET", "HEADER", "FILE", "URI"}
\* @param('a', type=t, many=m, validators='required'), and
\* @param('a', verbose_name='v', lookup=l, validators='required')
RequiredDeclarations ==
    {Param("a", "", "", None, t, "GET", m, <<",">>, <<"required">>, <<>>) :
        t \in TypeNames, m \in BOOLEAN}
    \cup {Param("a", "", "v", None, "string", l, FALSE, <<",">>, <<"required">>, <<>>) :
            l \in Lookups}
\* the declarations stacked with them: @GET('b', type='int', default=10) and
\* @HEADER('b', related_name='a', default='h')
RequiredSiblings ==
    {Param("b", "", "", PInt(10), "int", "GET", FALSE, <<",">>, <<>>, <<>>),
     Param("b", "a", "", Chars1("h"), "string", "HEADER", FALSE, <<",">>, <<>>, <<>>)}
RequiredHandlers ==
    {<<r>> : r \in RequiredDeclarations}
    \cup {<<r, d>> : r \in RequiredDeclarations, d \in RequiredSiblings}
    \cup {<<d, r>> : r \in RequiredDeclarations, d \in RequiredSiblings}

InitRequired ==
    /\ UnitsIdle
    /\ written \in RequiredHandlers
    /\ wrapped = FALSE
    /\ wrappers = 0
    /\ __params__ = <<>>
    /\ _registry = BuiltinConverters
    /\ pc = "idle"
    /\ calls = 0
    /\ args = <<>>
    /\ kwargs0 = EmptyDict
    /\ kwargs = EmptyDict
    /\ request = [k \in {} |-> EmptyDict]
    /\ extra_kwargs = NoExtra
    /\ i = 0
    /\ j = 0
    /\ error = NoError
    /\ handler = NotCalled
    /\ log = <<>>

SpecRequired == InitRequired /\ [][Next]_vars

(***************************************************************************)
(* C25: a required parameter the request leaves out.                       *)
(***************************************************************************)
\* descriptor k is declared with the rule required and no default
RequiredNoDefault(k) ==
    /\ IsNone(__params__[k].default)
    /\ Len(__params__[k].validators) = 1
    /\ __params__[k].validators[1].cls = "RequiredValidator"
\* the source of descriptor k answers, and has nothing under its name
Unsupplied(k) == RawValue(k) = Ok(None)
\* the error the Required validator of descriptor k raises
RequiredError(k) ==
    ValidationError(<<"The ", __params__[k].verbose_name, " is required.">>,
                    "required_validator", HTTP_400_BAD_REQUEST)
\* the steps of the Required validator of descriptor k in the current call
RequiredSteps(k) ==
    {m \in 1..Len(log) : log[m].op = "validate" /\ log[m].d = k /\ log[m].v = 1}
\* an absent value stays None through the conversion: the descriptor takes
\* one value, and its type is not a boolean type
StaysNone(k) ==
    /\ ~__params__[k].many
    /\ ConverterRegistryGet(_registry, __params__[k].type) # "BooleanConverter"

\* C25 as stated: a call that leaves out a required parameter without
\* default never reaches the handler, whatever the type name and with or
\* without many, and the Required validator of the parameter fails
C25_RequiredAbsentRejected ==
    \A k \in 1..Len(__params__) :
        (Pipeline /\ RequiredNoDefault(k) /\ Unsupplied(k) /\ LastWriter(k)) =>
            /\ ~handler.called
            /\ \A m \in RequiredSteps(k) : ~log[m].ok /\ error = RequiredError(k)

\* C25: a call that leaves out a required parameter without default, whose
\* key no descriptor extracted later stores under, never reaches the handler
\* when the descriptor takes one value of a type other than bool/boolean:
\* its Required validator fails with 'The <verbose name> is required.'.
\* With many=true the absent value is converted to the empty list, with a
\* boolean type to false, and the Required validator passes
C25_RequiredAbsentRejectedUnlessListOrBool ==
    \A k \in 1..Len(__params__) :
        (Pipeline /\ RequiredNoDefault(k) /\ Unsupplied(k) /\ LastWriter(k)) =>
            IF StaysNone(k)
            THEN /\ ~handler.called
                 /\ \A m \in RequiredSteps(k) :
                       /\ ~log[m].ok
                       /\ m = Len(log) /\ pc = "raised"
                       /\ error = RequiredError(k)
            ELSE /\ \A m \in RequiredSteps(k) : log[m].ok
                 /\ Len(__params__) = 1 => pc # "raised"
                 /\ (pc = "returned" /\ Len(__params__) = 1) =>
                       /\ handler.called
                       /\ Stored(k) = (IF __params__[k].many THEN PList(<<>>)
                                       ELSE PBool(FALSE))

\* @GET('b', type='int', default=10) above @param('a', type='int',
\* validators='required'), called with the query string b=5: both were
\* converted, then the call failed with 'The a is required.'
C25_Witness ==
    /\ Len(__params__) = 2
    /\ Pipeline /\ pc = "raised"
    /\ RequiredNoDefault(1) /\ Unsupplied(1) /\ LastWriter(1)
    /\ __params__[1].type = "int" /\ ~__params__[1].many
    /\ Query = [b |-> PStr(<<"5">>)]
    /\ log = <<[op |-> "parse", d |-> 1, v |-> 0, ok |-> TRUE],
               [op |-> "parse", d |-> 2, v |-> 0, ok |-> TRUE],
               [op |-> "validate", d |-> 1, v |-> 1, ok |-> FALSE]>>
    /\ error = ValidationError(<<"The ", "a", " is required.">>, "required_validator",
                               HTTP_400_BAD_REQUEST)
    /\ ~handler.called


(***************************************************************************)
(* C26: how a call that resolved a request can end.                        *)
(***************************************************************************)
\* the object the call resolved is a request, or a view holding one
RequestResolved == Pipeline /\ (IsRequest(ResolveRequest(args)) \/ IsView(ResolveRequest(args)))

\* C26: a call that resolved a request object ends with the handler invoked
\* or with a ValidationError raised, and with no other exception; so it is
\* for a URI parameter that neither the caller's keywords nor an
\* extra-kwargs mapping hold, which gets its default
C26_HandlerOrValidationError ==
    RequestResolved =>
        /\ pc = "returned" => handler.called /\ error = NoError
        /\ pc = "raised" => ~handler.called /\ error.exc = "ValidationError"
        /\ \A k \in 1..Len(log) :
              (/\ log[k].op = "parse"
               /\ __params__[log[k].d].lookup = "URI"
               /\ __params__[log[k].d].name \notin DOMAIN KwargsAfter(log[k].d - 1)
               /\ __params__[log[k].d].name \notin DOMAIN extra_kwargs.d)
              => RawValue(log[k].d) = Ok(__params__[log[k].d].default)

=============================================================================
